---- MODULE Spec2Model ----
(***************************************************************************)
(* A model of the text-reduction core of sift: the cascading splitter     *)
(* (internal/chunk), the unit counters (internal/counter), the chunk      *)
(* selector (internal/app/chunk_selection.go), the entry point Run and    *)
(* the lexical search (internal/app/sift.go), the extraneous-chunk        *)
(* classifier (internal/classify), the TF-IDF corpus (internal/tfidf)     *)
(* and the context calculator (internal/app/context_calculator.go).       *)
(*                                                                         *)
(* A Go string is modelled as the sequence of its bytes; each byte is a   *)
(* one-element TLA+ string.  The two bytes of the two-byte UTF-8 encoding *)
(* of one non-ASCII character are written "C3" (lead) and "A9"            *)
(* (continuation), so that len() counts bytes and Count() counts runes,   *)
(* as in the program.                                                      *)
(***************************************************************************)
EXTENDS Integers, Sequences, FiniteSets, TLC

VARIABLES
    \* chunk.SplitText: its parameters, its locals and its control position
    text, maxChunkSize, finalChunks, chunksToProcess, wave, splitPc,
    \* app.ChunkSelector: the fields of the selector
    counterName, maxUnits, strategy, isSearchMode,
    \* one selection call on the selector: parameters, locals, control position, result
    allChunks, orderedChunks, contextBefore, contextAfter,
    selectedChunks, currentUnits, addedIndices, pos, selPc, output, rendered,
    \* which entry point started the call in progress: "none", "strategy" or "search"
    call,
    \* one call of createPartialChunk on its own: the receiver's type, the counter,
    \* the two arguments, the returned string and the control position
    partialOwner, partialCounter, partialText, partialUnits, partialResult, partialPc,
    \* app.Run: the configuration, the extracted content, the two results and the
    \* control position
    cfg, combinedContent, runResult, runErr, runPc,
    \* app.performLexicalSearch: the score of each chunk, the returned slice and
    \* the control position
    searchScores, scoredChunks, searchPc,
    \* classify.IsExtraneous: the chunk's tokens (for each, whether its stem is a
    \* stopword), the position, whether the build fuses x*y + z, the result and
    \* the control position
    classifyTokens, classifyIndex, classifyTotal, fusedMultiplyAdd, extraneous, classifyPc,
    \* tfidf: the corpus NewCorpus built, the arguments of Score, its result and
    \* the control position
    corpus, scoreQuery, scoreDocIndex, totalScore, scorePc,
    \* app.ContextCalculator: its counter, the two arguments of
    \* CalculateSmartContextWithBudget, the returned ContextResult and the
    \* control position
    calcCounter, req, budgetUnits, contextResult, calcPc,
    \* formatSelectedChunks, one loop iteration at a time: the slice, the
    \* selector's isSearchMode, the loop index, the builder, what the last
    \* iteration wrote (whether a separator, which, and the chunk text), the
    \* Index of every chunk written so far and the control position
    fmtSelected, fmtSearchMode, fmtI, fmtResult, fmtSeparated, fmtSeparator,
    fmtChunkText, fmtIndices, fmtPc,
    \* removeOverlapPrefix on its own: the two arguments, the returned string
    \* and the control position
    overlapCurrent, overlapPrevious, overlapResult, overlapPc,
    \* ContextCalculator.collectContextChunks on its own: the calculator's
    \* counter, the four arguments, the two returned values and the control
    \* position
    collectCounter, collectAll, collectStart, collectDirection, collectBudget,
    collectChunks, collectUnits, collectPc,
    \* selectWithSmartContext: its contextUnits argument, the remainingBudget
    \* handed to the calculator for the current search result, and the
    \* chunks of contextResult.SelectedChunks the inner loop has yet to visit
    contextUnits, remainingBudget, resultChunks,
    \* mergeShortSegments, one loop iteration at a time: the segments slice
    \* (written in place), the two size arguments, the loop index (0-based),
    \* the result slice and the control position
    mergeSegments, mergeMaxChunkSize, mergeMinChunkSize, mergeI, mergeResult, mergePc

splitVars == <<text, maxChunkSize, finalChunks, chunksToProcess, wave, splitPc>>

selectorVars == <<counterName, maxUnits, strategy, isSearchMode>>

callVars == <<allChunks, orderedChunks, contextBefore, contextAfter,
              selectedChunks, currentUnits, addedIndices, pos, selPc, output, rendered,
              call>>

partialVars == <<partialOwner, partialCounter, partialText, partialUnits, partialResult,
                 partialPc>>

runVars == <<cfg, combinedContent, runResult, runErr, runPc>>

searchVars == <<searchScores, scoredChunks, searchPc>>

\* the state of the operations modelled after the chunk selector and Run
classifyVars == <<classifyTokens, classifyIndex, classifyTotal, fusedMultiplyAdd,
                  extraneous, classifyPc>>

scoreVars == <<corpus, scoreQuery, scoreDocIndex, totalScore, scorePc>>

calcVars == <<calcCounter, req, budgetUnits, contextResult, calcPc>>

formatVars == <<fmtSelected, fmtSearchMode, fmtI, fmtResult, fmtSeparated, fmtSeparator,
                fmtChunkText, fmtIndices, fmtPc>>

overlapVars == <<overlapCurrent, overlapPrevious, overlapResult, overlapPc>>

collectVars == <<collectCounter, collectAll, collectStart, collectDirection, collectBudget,
                 collectChunks, collectUnits, collectPc>>

smartVars == <<contextUnits, remainingBudget, resultChunks>>

mergeVars == <<mergeSegments, mergeMaxChunkSize, mergeMinChunkSize, mergeI, mergeResult,
               mergePc>>

laterVars == <<collectVars, smartVars, mergeVars>>

moreVars == <<formatVars, overlapVars, laterVars>>

restVars == <<searchVars, classifyVars, scoreVars, calcVars, moreVars>>

vars == <<splitVars, selectorVars, callVars, partialVars, runVars, restVars>>

(***************************************************************************)
(* Bounds of the model.                                                    *)
(***************************************************************************)
MaxTextLen == 5
MaxChunkSizeBound == 4
MaxChunks == 3
MaxUnitsBound == 3

(***************************************************************************)
(* Go strings                                                              *)
(***************************************************************************)
SP == " "
TAB == "\t"
NL == "\n"

Min(a, b) == IF a <= b THEN a ELSE b

Max(a, b) == IF a >= b THEN a ELSE b

IsSpace(c) == c \in {SP, TAB, NL, "\r"}

\* s[from:to] of Go, 0-based and half-open
Slice(s, from, to) == SubSeq(s, from + 1, to)

HasPrefixAt(s, d, i) ==
    /\ i + Len(d) - 1 <= Len(s)
    /\ \A k \in 1..Len(d) : s[i + k - 1] = d[k]

HasSuffix(s, d) == Len(d) <= Len(s) /\ SubSeq(s, Len(s) - Len(d) + 1, Len(s)) = d

\* strings.Contains
Contains(s, d) == \E i \in 1..Len(s) : HasPrefixAt(s, d, i)

\* strings.Split for a non-empty delimiter: leftmost, non-overlapping matches
RECURSIVE SplitFrom(_, _, _, _)
SplitFrom(s, d, i, start) ==
    IF i > Len(s) THEN <<SubSeq(s, start, Len(s))>>
    ELSE IF HasPrefixAt(s, d, i)
         THEN <<SubSeq(s, start, i - 1)>> \o SplitFrom(s, d, i + Len(d), i + Len(d))
         ELSE SplitFrom(s, d, i + 1, start)

Split(s, d) == SplitFrom(s, d, 1, 1)

\* the bytes unicode.IsSpace accepts, restricted to the bytes of the model
SpaceBytes == {SP, TAB, NL, "\r"}

RECURSIVE TrimLeft(_, _)
TrimLeft(s, cutset) ==
    IF s # <<>> /\ Head(s) \in cutset THEN TrimLeft(Tail(s), cutset) ELSE s

RECURSIVE TrimRight(_, _)
TrimRight(s, cutset) ==
    IF s # <<>> /\ s[Len(s)] \in cutset
    THEN TrimRight(SubSeq(s, 1, Len(s) - 1), cutset)
    ELSE s

\* strings.TrimSpace
TrimSpace(s) == TrimRight(TrimLeft(s, SpaceBytes), SpaceBytes)

\* strings.Fields: the maximal runs of non-space bytes
RECURSIVE FieldsFrom(_, _)
FieldsFrom(s, cur) ==
    IF s = <<>> THEN (IF cur = <<>> THEN <<>> ELSE <<cur>>)
    ELSE IF IsSpace(Head(s))
         THEN (IF cur = <<>> THEN <<>> ELSE <<cur>>) \o FieldsFrom(Tail(s), <<>>)
         ELSE FieldsFrom(Tail(s), cur \o <<Head(s)>>)

Fields(s) == FieldsFrom(s, <<>>)

\* strings.Join
RECURSIVE Join(_, _)
Join(parts, sep) ==
    IF parts = <<>> THEN <<>>
    ELSE IF Len(parts) = 1 THEN parts[1]
    ELSE parts[1] \o sep \o Join(Tail(parts), sep)

RECURSIVE Flatten(_)
Flatten(ss) == IF ss = <<>> THEN <<>> ELSE Head(ss) \o Flatten(Tail(ss))

\* all sequences over S of length at most n
RECURSIVE SeqsUpTo(_, _)
SeqsUpTo(S, n) ==
    IF n = 0 THEN {<<>>}
    ELSE LET shorter == SeqsUpTo(S, n - 1)
         IN  shorter \cup {Append(s, c) : s \in {t \in shorter : Len(t) = n - 1}, c \in S}

(***************************************************************************)
(* internal/chunk/chunk.go                                                 *)
(***************************************************************************)
strategies ==
    << [name |-> "paragraph",            delimiter |-> <<NL, NL>>],
       [name |-> "sentence",             delimiter |-> <<".", SP>>],
       [name |-> "sentence-question",    delimiter |-> <<"?", SP>>],
       [name |-> "sentence-exclamation", delimiter |-> <<"!", SP>>],
       [name |-> "line",                 delimiter |-> <<NL>>],
       [name |-> "word",                 delimiter |-> <<SP>>] >>

trimSpacesOnly(s) == TrimRight(TrimLeft(s, {SP, TAB}), {SP, TAB})

\* int(float64(maxChunkSize) * 0.25), floor 3
calculateMinimumChunkSize(max) == Max(max \div 4, 3)

RECURSIVE packWordsLoop(_, _, _, _)
packWordsLoop(segments, max, result, currentChunk) ==
    IF segments = <<>>
    THEN IF trimSpacesOnly(currentChunk) # <<>>
         THEN Append(result, trimSpacesOnly(currentChunk))
         ELSE result
    ELSE LET segment     == Head(segments)
             spaceNeeded == Len(segment) + (IF Len(currentChunk) > 0 THEN 1 ELSE 0)
             flush       == Len(currentChunk) > 0 /\ Len(currentChunk) + spaceNeeded > max
             result1     == IF flush /\ trimSpacesOnly(currentChunk) # <<>>
                            THEN Append(result, trimSpacesOnly(currentChunk))
                            ELSE result
             current1    == IF flush THEN <<>> ELSE currentChunk
             current2    == IF Len(current1) > 0
                            THEN current1 \o <<SP>> \o segment
                            ELSE segment
         IN  packWordsLoop(Tail(segments), max, result1, current2)

packWords(segments, max) == packWordsLoop(segments, max, <<>>, <<>>)

RECURSIVE mergeLoop(_, _, _, _, _)
mergeLoop(segments, i, result, max, min) ==
    IF i > Len(segments) THEN result
    ELSE LET currentSegment == segments[i]
             hasNext        == i + 1 <= Len(segments)
             withNext       == currentSegment \o <<SP>> \o segments[i + 1]
             hasPrev        == Len(result) > 0
             withPrev       == result[Len(result)] \o <<SP>> \o currentSegment
         IN  IF Len(currentSegment) >= min
             THEN mergeLoop(segments, i + 1, Append(result, currentSegment), max, min)
             ELSE IF hasNext /\ Len(withNext) <= max
             THEN mergeLoop([segments EXCEPT ![i + 1] = withNext], i + 1, result, max, min)
             ELSE IF hasPrev /\ Len(withPrev) <= max
             THEN mergeLoop(segments, i + 1, [result EXCEPT ![Len(result)] = withPrev], max, min)
             ELSE mergeLoop(segments, i + 1, Append(result, currentSegment), max, min)

mergeShortSegments(segments, max, min) ==
    IF Len(segments) <= 1 THEN segments ELSE mergeLoop(segments, 1, <<>>, max, min)

packSegments(segments, strategyName, max, min) ==
    IF Len(segments) = 0 THEN <<>>
    ELSE IF strategyName = "word" THEN packWords(segments, max)
    ELSE mergeShortSegments(segments, max, min)

\* the text put back after every part but the last, per strategy
Restored(strategyName) ==
    CASE strategyName = "sentence"             -> <<".">>
      [] strategyName = "sentence-question"    -> <<"?">>
      [] strategyName = "sentence-exclamation" -> <<"!">>
      [] strategyName = "line"                 -> <<NL>>
      [] strategyName = "paragraph"            -> <<NL, NL>>
      [] OTHER                                 -> <<>>

RECURSIVE segmentsOf(_, _, _)
segmentsOf(parts, i, strategyName) ==
    IF i > Len(parts) THEN <<>>
    ELSE LET trimmed == trimSpacesOnly(parts[i])
             rest    == segmentsOf(parts, i + 1, strategyName)
         IN  IF trimmed = <<>> THEN rest
             ELSE IF i < Len(parts) THEN <<trimmed \o Restored(strategyName)>> \o rest
             ELSE <<trimmed>> \o rest

splitByDelimiter(txt, delimiter, strategyName, max) ==
    IF ~Contains(txt, delimiter) THEN <<txt>>
    ELSE packSegments(segmentsOf(Split(txt, delimiter), 1, strategyName),
                      strategyName, max, calculateMinimumChunkSize(max))

\* the non-empty trimmed members of a list of chunks, in order
RECURSIVE trimmedNonEmpty(_)
trimmedNonEmpty(chunks) ==
    IF chunks = <<>> THEN <<>>
    ELSE (IF trimSpacesOnly(Head(chunks)) # <<>> THEN <<trimSpacesOnly(Head(chunks))>> ELSE <<>>)
         \o trimmedNonEmpty(Tail(chunks))

\* one wave of SplitText over the queue: <<promoted, nextQueue>>
RECURSIVE waveLoop(_, _, _, _, _)
waveLoop(queue, strat, max, promoted, nextQueue) ==
    IF queue = <<>> THEN <<promoted, nextQueue>>
    ELSE LET chunk == Head(queue)
         IN  IF Len(chunk) <= max
             THEN waveLoop(Tail(queue), strat, max, Append(promoted, chunk), nextQueue)
             ELSE waveLoop(Tail(queue), strat, max, promoted,
                           nextQueue \o trimmedNonEmpty(
                               splitByDelimiter(chunk, strat.delimiter, strat.name, max)))

\* the bytes input texts are drawn from ("? " and "! " are split by the same code as ". ")
SplitAlphabet == {"a", "b", SP, TAB, NL, "."}

SplitTexts == SeqsUpTo(SplitAlphabet, MaxTextLen)

IdleSplit ==
    /\ text = <<>>
    /\ maxChunkSize = 0
    /\ finalChunks = <<>>
    /\ chunksToProcess = <<>>
    /\ wave = 1
    /\ splitPc = "idle"

\* the locals of a selection call when no call is in progress
NoCall ==
    /\ allChunks = <<>>
    /\ orderedChunks = <<>>
    /\ contextBefore = 0
    /\ contextAfter = 0
    /\ selectedChunks = <<>>
    /\ currentUnits = 0
    /\ addedIndices = {}
    /\ pos = 1
    /\ output = <<>>
    /\ rendered = <<>>
    /\ call = "none"

IdleSelect ==
    /\ counterName = "words"
    /\ maxUnits = 0
    /\ strategy = "Beginning"
    /\ isSearchMode = FALSE
    /\ selPc = "idle"
    /\ NoCall

\* createPartialChunk has not been called
IdlePartial ==
    /\ partialOwner = "none"
    /\ partialCounter = "words"
    /\ partialText = <<>>
    /\ partialUnits = 0
    /\ partialResult = <<>>
    /\ partialPc = "idle"

\* Run has not been called
IdleRun ==
    /\ cfg = [Sources |-> 0, SearchQuery |-> <<>>, MaxUnits |-> 0,
              CountingMethod |-> "words", SizingStrategy |-> "Beginning"]
    /\ combinedContent = <<>>
    /\ runResult = <<>>
    /\ runErr = FALSE
    /\ runPc = "idle"

\* performLexicalSearch has not been called
IdleSearch ==
    /\ searchScores = <<>>
    /\ scoredChunks = <<>>
    /\ searchPc = "idle"

\* IsExtraneous has not been called
IdleClassify ==
    /\ classifyTokens = <<>>
    /\ classifyIndex = 0
    /\ classifyTotal = 0
    /\ fusedMultiplyAdd = FALSE
    /\ extraneous = FALSE
    /\ classifyPc = "idle"

\* no corpus has been built
IdleScore ==
    /\ corpus = <<>>
    /\ scoreQuery = <<>>
    /\ scoreDocIndex = 0
    /\ totalScore = <<>>
    /\ scorePc = "idle"

\* no context calculator has been made
IdleCalc ==
    /\ calcCounter = "none"
    /\ req = <<>>
    /\ budgetUnits = 0
    /\ contextResult = <<>>
    /\ calcPc = "idle"

\* formatSelectedChunks has not been called on its own
IdleFormat ==
    /\ fmtSelected = <<>>
    /\ fmtSearchMode = FALSE
    /\ fmtI = 0
    /\ fmtResult = <<>>
    /\ fmtSeparated = FALSE
    /\ fmtSeparator = <<>>
    /\ fmtChunkText = <<>>
    /\ fmtIndices = <<>>
    /\ fmtPc = "idle"

\* removeOverlapPrefix has not been called on its own
IdleOverlap ==
    /\ overlapCurrent = <<>>
    /\ overlapPrevious = <<>>
    /\ overlapResult = <<>>
    /\ overlapPc = "idle"

IdleCollect ==
    /\ collectCounter = "words"
    /\ collectAll = <<>>
    /\ collectStart = 0
    /\ collectDirection = 1
    /\ collectBudget = 0
    /\ collectChunks = <<>>
    /\ collectUnits = 0
    /\ collectPc = "idle"

IdleSmart ==
    /\ contextUnits = 0
    /\ remainingBudget = 0
    /\ resultChunks = <<>>

IdleMerge ==
    /\ mergeSegments = <<>>
    /\ mergeMaxChunkSize = 1
    /\ mergeMinChunkSize = 3
    /\ mergeI = 0
    /\ mergeResult = <<>>
    /\ mergePc = "idle"

IdleLater == IdleCollect /\ IdleSmart /\ IdleMerge

IdleMore == IdleFormat /\ IdleOverlap /\ IdleLater

IdleRest == IdleSearch /\ IdleClassify /\ IdleScore /\ IdleCalc /\ IdleMore

InitSplit ==
    /\ IdleSelect
    /\ IdlePartial
    /\ IdleRun
    /\ IdleRest
    /\ text \in SplitTexts
    /\ maxChunkSize \in 0..MaxChunkSizeBound
    /\ finalChunks = <<>>
    /\ chunksToProcess = <<>>
    /\ wave = 1
    /\ splitPc = "start"

\* SplitText up to the first wave: validation, trimming, the single-chunk case
SplitTextEnter ==
    /\ splitPc = "start"
    /\ IF maxChunkSize <= 0 \/ TrimSpace(text) = <<>>
       THEN /\ splitPc' = "done"
            /\ UNCHANGED <<finalChunks, chunksToProcess>>
       ELSE IF Len(trimSpacesOnly(text)) <= maxChunkSize
       THEN /\ finalChunks' = <<trimSpacesOnly(text)>>
            /\ splitPc' = "done"
            /\ UNCHANGED chunksToProcess
       ELSE /\ chunksToProcess' = <<trimSpacesOnly(text)>>
            /\ splitPc' = "waves"
            /\ UNCHANGED finalChunks
    /\ UNCHANGED <<text, maxChunkSize, wave, selectorVars, callVars, partialVars, runVars, restVars>>

\* one iteration of the loop over strategies
SplitTextWave ==
    /\ splitPc = "waves"
    /\ wave <= Len(strategies)
    /\ chunksToProcess # <<>>
    /\ LET r == waveLoop(chunksToProcess, strategies[wave], maxChunkSize, <<>>, <<>>)
       IN  /\ finalChunks' = finalChunks \o r[1]
           /\ chunksToProcess' = r[2]
    /\ wave' = wave + 1
    /\ UNCHANGED <<text, maxChunkSize, splitPc, selectorVars, callVars, partialVars, runVars, restVars>>

\* the loop over strategies ends; what is left in the queue is emitted
SplitTextFinish ==
    /\ splitPc = "waves"
    /\ (wave > Len(strategies) \/ chunksToProcess = <<>>)
    /\ finalChunks' = finalChunks \o trimmedNonEmpty(chunksToProcess)
    /\ chunksToProcess' = <<>>
    /\ splitPc' = "done"
    /\ UNCHANGED <<text, maxChunkSize, wave, selectorVars, callVars, partialVars, runVars, restVars>>

NextSplit == SplitTextEnter \/ SplitTextWave \/ SplitTextFinish

SpecSplit == InitSplit /\ [][NextSplit]_vars

\* the chunks SplitText returns, once it has returned
SplitReturned == splitPc = "done"

HasWhitespace(s) == \E i \in 1..Len(s) : IsSpace(s[i])

\* the whitespace-separated words of a list of chunks, in the order of the list
RECURSIVE WordsOfChunks(_)
WordsOfChunks(chunks) ==
    IF chunks = <<>> THEN <<>> ELSE Fields(Head(chunks)) \o WordsOfChunks(Tail(chunks))

(***************************************************************************)
(* C1: every chunk returned by SplitText(T, S), S > 0, has length <= S,    *)
(* except a chunk that is one whitespace-free word longer than S.          *)
(***************************************************************************)
C1_ChunkWithinSizeOrLoneWord ==
    (SplitReturned /\ maxChunkSize > 0) =>
        \A i \in 1..Len(finalChunks) :
            \/ Len(finalChunks[i]) <= maxChunkSize
            \/ ~HasWhitespace(finalChunks[i])

(***************************************************************************)
(* C2: the whitespace-separated words of the chunks SplitText(T, S)        *)
(* returns, read in the order of the chunks, are exactly the words of T:  *)
(* none lost, none reordered.                                              *)
(***************************************************************************)
C2_WordSequencePreserved ==
    (SplitReturned /\ maxChunkSize > 0) => WordsOfChunks(finalChunks) = Fields(text)

(***************************************************************************)
(* internal/counter: the words and characters counters.  The tokens       *)
(* counter needs the cl100k_base vocabulary of tiktoken-go, which is not   *)
(* part of the repository, and is not modelled.                            *)
(***************************************************************************)
LEAD == "C3"

CONT == "A9"

\* utf8.RuneCountInString: a well-formed two-byte sequence is one rune, any
\* other byte (ASCII, or a stray lead or continuation byte) is one rune
RECURSIVE RuneCountInString(_)
RuneCountInString(s) ==
    IF s = <<>> THEN 0
    ELSE IF Len(s) >= 2 /\ s[1] = LEAD /\ s[2] = CONT
         THEN 1 + RuneCountInString(SubSeq(s, 3, Len(s)))
         ELSE 1 + RuneCountInString(Tail(s))

WordCounterCount(t) == IF t = <<>> THEN 0 ELSE Len(Fields(t))

CharCounterCount(t) == IF t = <<>> THEN 0 ELSE RuneCountInString(t)

CounterNames == {"words", "characters"}

\* Counter.Count of the counter whose Name() is name
Count(name, t) == IF name = "words" THEN WordCounterCount(t) ELSE CharCounterCount(t)

(***************************************************************************)
(* internal/app/chunk_selection.go                                         *)
(***************************************************************************)
SizingStrategies == {"Beginning", "Middle", "End"}

ChunkWithIndex(t, i, sc) == [Text |-> t, Index |-> i, Score |-> sc]

allowPartialChunks == TRUE

\* the loop that moves cutoff back to just after a space (cutoff counts bytes)
RECURSIVE cutoffLoop(_, _)
cutoffLoop(chunkText, cutoff) ==
    IF cutoff > 0 /\ cutoff < Len(chunkText) /\ chunkText[cutoff] # SP
    THEN cutoffLoop(chunkText, cutoff - 1)
    ELSE cutoff

createPartialChunk(name, chunkText, remainingUnits) ==
    IF remainingUnits <= 0 THEN <<>>
    ELSE IF name = "words"
    THEN LET words == Fields(chunkText)
         IN  IF Len(words) > 0
             THEN Join(SubSeq(words, 1, Min(remainingUnits, Len(words))), <<SP>>)
             ELSE <<>>
    ELSE IF Len(chunkText) <= remainingUnits THEN chunkText
    ELSE LET cutoff == cutoffLoop(chunkText, remainingUnits)
         IN  IF cutoff > 0
             THEN TrimSpace(Slice(chunkText, 0, cutoff))
             ELSE Slice(chunkText, 0, remainingUnits)

chunksWithIndex(chunks) ==
    [i \in 1..Len(chunks) |-> ChunkWithIndex(chunks[i], i - 1, 0)]

\* left and right are the 0-based indices of the source
RECURSIVE middleOutLoop(_, _, _, _)
middleOutLoop(chunks, result, left, right) ==
    IF Len(result) >= Len(chunks) THEN result
    ELSE LET goRight == right < Len(chunks)
             result1 == IF goRight THEN Append(result, chunks[right + 1]) ELSE result
             goLeft  == left >= 0
             result2 == IF goLeft THEN Append(result1, chunks[left + 1]) ELSE result1
         IN  middleOutLoop(chunks, result2,
                           IF goLeft THEN left - 1 ELSE left,
                           IF goRight THEN right + 1 ELSE right)

\* middle-out expanding to the left before the right
RECURSIVE middleOutLoopLeftFirst(_, _, _, _)
middleOutLoopLeftFirst(chunks, result, left, right) ==
    IF Len(result) >= Len(chunks) THEN result
    ELSE LET goLeft  == left >= 0
             result1 == IF goLeft THEN Append(result, chunks[left + 1]) ELSE result
             goRight == right < Len(chunks)
             result2 == IF goRight THEN Append(result1, chunks[right + 1]) ELSE result1
         IN  middleOutLoopLeftFirst(chunks, result2,
                                    IF goLeft THEN left - 1 ELSE left,
                                    IF goRight THEN right + 1 ELSE right)

applyMiddleOutLeftFirst(chunks) ==
    IF Len(chunks) = 0 \/ Len(chunks) = 1 THEN chunks
    ELSE LET middle == Len(chunks) \div 2
         IN  middleOutLoopLeftFirst(chunks, <<chunks[middle + 1]>>, middle - 1, middle + 1)

applyMiddleOutStrategyToChunksWithIndex(chunks) ==
    IF Len(chunks) = 0 \/ Len(chunks) = 1 THEN chunks
    ELSE LET middle == Len(chunks) \div 2
         IN  middleOutLoop(chunks, <<chunks[middle + 1]>>, middle - 1, middle + 1)

\* applyStrategyOrderToChunksWithIndex without the reversal for End
applyStrategyOrderNotReversed(chunks, strat) ==
    CASE strat = "Beginning" -> chunks
      [] strat = "End"       -> chunks
      [] strat = "Middle"    -> applyMiddleOutStrategyToChunksWithIndex(chunks)
      [] OTHER               -> chunks

applyStrategyOrderToChunksWithIndex(chunks, strat) ==
    CASE strat = "Beginning" -> chunks
      [] strat = "End"       -> [i \in 1..Len(chunks) |-> chunks[Len(chunks) + 1 - i]]
      [] strat = "Middle"    -> applyMiddleOutStrategyToChunksWithIndex(chunks)
      [] OTHER               -> chunks

PrepareForStrategy(chunks, strat) ==
    IF Len(chunks) = 0 THEN <<>>
    ELSE applyStrategyOrderToChunksWithIndex(chunksWithIndex(chunks), strat)

\* contextRange without the test of addedIndices
RECURSIVE contextRangeRepeating(_, _, _, _)
contextRangeRepeating(lo, hi, all, added) ==
    IF lo > hi THEN <<>>
    ELSE (IF lo >= 0 /\ lo < Len(all)
          THEN <<ChunkWithIndex(all[lo + 1], lo, 0)>>
          ELSE <<>>)
         \o contextRangeRepeating(lo + 1, hi, all, added)

\* the chunks of indices lo..hi (0-based) that exist and are not yet added
RECURSIVE contextRange(_, _, _, _)
contextRange(lo, hi, all, added) ==
    IF lo > hi THEN <<>>
    ELSE (IF lo >= 0 /\ lo < Len(all) /\ lo \notin added
          THEN <<ChunkWithIndex(all[lo + 1], lo, 0)>>
          ELSE <<>>)
         \o contextRange(lo + 1, hi, all, added)

getChunkWithConfigurableContext(targetIndex, all, before, after, added) ==
    contextRange(targetIndex - before, targetIndex - 1, all, added)
    \o (IF targetIndex \notin added
        THEN <<ChunkWithIndex(all[targetIndex + 1], targetIndex, 0)>>
        ELSE <<>>)
    \o contextRange(targetIndex + 1, targetIndex + after, all, added)

\* addCandidates with the fit test taken on the running total alone
RECURSIVE addCandidatesLateTest(_, _, _, _, _, _)
addCandidatesLateTest(cands, sel, cur, added, name, max) ==
    IF cands = <<>> THEN [sel |-> sel, cur |-> cur, added |-> added]
    ELSE LET candidate  == Head(cands)
             chunkUnits == Count(name, candidate.Text)
         IN  IF cur <= max
             THEN addCandidatesLateTest(Tail(cands), Append(sel, candidate), cur + chunkUnits,
                                        added \cup {candidate.Index}, name, max)
             ELSE addCandidatesLateTest(Tail(cands), sel, cur, added, name, max)

\* the loop over the candidates of one ordered chunk, size-constrained
RECURSIVE addCandidates(_, _, _, _, _, _)
addCandidates(cands, sel, cur, added, name, max) ==
    IF cands = <<>> THEN [sel |-> sel, cur |-> cur, added |-> added]
    ELSE LET candidate  == Head(cands)
             chunkUnits == Count(name, candidate.Text)
             partial    == createPartialChunk(name, candidate.Text, max - cur)
         IN  IF cur + chunkUnits <= max
             THEN addCandidates(Tail(cands), Append(sel, candidate), cur + chunkUnits,
                                added \cup {candidate.Index}, name, max)
             ELSE IF allowPartialChunks /\ cur < max
             THEN IF partial # <<>>
                  THEN [sel   |-> Append(sel, ChunkWithIndex(partial, candidate.Index, 0)),
                        cur   |-> max,
                        added |-> added]
                  ELSE [sel |-> sel, cur |-> cur, added |-> added]
             ELSE addCandidates(Tail(cands), sel, cur, added, name, max)

\* the loops of the two no-limit branches: every target with its context
RECURSIVE addAllWithContext(_, _, _, _, _, _)
addAllWithContext(targets, all, before, after, sel, added) ==
    IF targets = <<>> THEN sel
    ELSE LET cands == getChunkWithConfigurableContext(Head(targets).Index, all,
                                                      before, after, added)
         IN  addAllWithContext(Tail(targets), all, before, after, sel \o cands,
                               added \cup {cands[i].Index : i \in 1..Len(cands)})

\* scores are kept in hundredths: minScoreThreshold = 0.01
minScoreThreshold == 1

maxRelevantLimit == 5

maxFallback == 2

\* a chunk at the threshold passes too
AtOrAboveThreshold(c) == c.Score >= minScoreThreshold

AboveThreshold(c) == c.Score > minScoreThreshold

\* the targets of the no-limit search branch
relevantChunks(ordered) ==
    LET scoreFilteredChunks == SelectSeq(ordered, AboveThreshold)
        half                == Len(scoreFilteredChunks) \div 2
        atLeastOne          == IF half = 0 /\ Len(scoreFilteredChunks) > 0 THEN 1 ELSE half
        maxRelevantChunks   == Min(atLeastOne, maxRelevantLimit)
        relevant            == IF Len(scoreFilteredChunks) > maxRelevantChunks
                               THEN SubSeq(scoreFilteredChunks, 1, maxRelevantChunks)
                               ELSE scoreFilteredChunks
    IN  IF Len(relevant) = 0 /\ Len(ordered) > 0
        THEN SubSeq(ordered, 1, Min(maxFallback, Len(ordered)))
        ELSE relevant

overlapLookback == 15

substantialLength == 40

\* a mutation of removeOverlapPrefix: the loop runs upwards and stops at the
\* shortest overlap
removeShortestOverlapPrefix(currentChunk, previousChunk) ==
    LET currentWords  == Fields(currentChunk)
        previousWords == Fields(previousChunk)
        maxCheck      == Min(Min(Len(currentWords), Len(previousWords)), overlapLookback)
        overlaps      == {i \in 1..maxCheck :
                            SubSeq(previousWords, Len(previousWords) - i + 1, Len(previousWords))
                            = SubSeq(currentWords, 1, i)}
        shortest      == CHOOSE i \in overlaps : \A j \in overlaps : j >= i
    IN  IF Len(currentWords) = 0 \/ Len(previousWords) = 0 THEN currentChunk
        ELSE IF overlaps = {} THEN currentChunk
        ELSE IF shortest < Len(currentWords)
             THEN Join(SubSeq(currentWords, shortest + 1, Len(currentWords)), <<SP>>)
             ELSE <<>>

removeOverlapPrefix(currentChunk, previousChunk) ==
    LET currentWords  == Fields(currentChunk)
        previousWords == Fields(previousChunk)
        maxCheck      == Min(Min(Len(currentWords), Len(previousWords)), overlapLookback)
        overlaps      == {i \in 1..maxCheck :
                            SubSeq(previousWords, Len(previousWords) - i + 1, Len(previousWords))
                            = SubSeq(currentWords, 1, i)}
        longest       == CHOOSE i \in overlaps : \A j \in overlaps : j <= i
    IN  IF Len(currentWords) = 0 \/ Len(previousWords) = 0 THEN currentChunk
        ELSE IF overlaps = {} THEN currentChunk
        ELSE IF longest < Len(currentWords)
             THEN Join(SubSeq(currentWords, longest + 1, Len(currentWords)), <<SP>>)
             ELSE <<>>

determineSeparator(prevChunk, currentChunk) ==
    LET prevTrimmed == TrimSpace(prevChunk)
    IN  IF prevChunk = <<>> THEN <<>>
        ELSE IF prevTrimmed = <<>> THEN <<NL, NL>>
        ELSE IF HasSuffix(prevChunk, <<NL, NL>>) THEN <<NL, NL>>
        ELSE IF HasSuffix(prevChunk, <<NL>>) THEN <<NL>>
        ELSE IF /\ \/ HasSuffix(prevTrimmed, <<".">>)
                   \/ HasSuffix(prevTrimmed, <<"!">>)
                   \/ HasSuffix(prevTrimmed, <<"?">>)
                /\ Len(prevTrimmed) > substantialLength
             THEN <<NL, NL>>
        ELSE <<NL>>

gapIndicator == <<NL, NL, "-", "-", "-", NL, NL>>

\* sort.Slice by Index (the indices of a selection are distinct)
RECURSIVE insertByIndex(_, _)
insertByIndex(sorted, c) ==
    IF sorted = <<>> THEN <<c>>
    ELSE IF c.Index < Head(sorted).Index THEN <<c>> \o sorted
    ELSE <<Head(sorted)>> \o insertByIndex(Tail(sorted), c)

\* sortByIndex with the sort left out
sortByIndexSkipped(selected) == selected

RECURSIVE sortByIndex(_)
sortByIndex(selected) ==
    IF selected = <<>> THEN <<>>
    ELSE insertByIndex(sortByIndex(SubSeq(selected, 1, Len(selected) - 1)),
                       selected[Len(selected)])

\* the loop of formatSelectedChunks over the sorted selection; indices is the
\* list of the Index of every chunk whose text was written to the result
RECURSIVE formatLoop(_, _, _, _, _)
formatLoop(selected, i, result, indices, searchMode) ==
    IF i > Len(selected) THEN [out |-> result, indices |-> indices]
    ELSE LET chunkText == IF i > 1
                          THEN removeOverlapPrefix(selected[i].Text, selected[i - 1].Text)
                          ELSE selected[i].Text
             written   == TrimSpace(chunkText) # <<>>
             separator == IF i > 1 /\ written
                          THEN IF searchMode /\ selected[i].Index # selected[i - 1].Index + 1
                               THEN gapIndicator
                               ELSE determineSeparator(selected[i - 1].Text, chunkText)
                          ELSE <<>>
         IN  formatLoop(selected, i + 1,
                        result \o separator \o (IF written THEN chunkText ELSE <<>>),
                        IF written THEN Append(indices, selected[i].Index) ELSE indices,
                        searchMode)

formatSelectedChunks(selected, searchMode) ==
    IF Len(selected) = 0 THEN [out |-> <<>>, indices |-> <<>>]
    ELSE formatLoop(sortByIndex(selected), 1, <<>>, <<>>, searchMode)

(***************************************************************************)
(* The selector as a state machine: construction, then selection calls.    *)
(***************************************************************************)
ChunkTexts == {<<"a">>, <<"b">>, <<"a", SP, "b">>}

chunkN(digit) == <<"c", "h", "u", "n", "k", digit>>

\* the chunk list of TestChunkSelector_OutputOrderWithSizeConstraints
FiveChunks == <<chunkN("0"), chunkN("1"), chunkN("2"), chunkN("3"), chunkN("4")>>

\* longer lists of one-word chunks, of even and of odd length
LongLists == {SubSeq(FiveChunks \o <<chunkN("5")>>, 1, n) : n \in {4, 5, 6}}

SearchLists == SeqsUpTo(ChunkTexts, MaxChunks)

ChunkLists == SearchLists \cup LongLists

\* fixed-count context windows <<before, after>>; <<1, 2>> is the default of a search
ContextWindows == {<<0, 0>>, <<1, 0>>, <<0, 1>>, <<1, 2>>}

defaultContextBefore == 0

defaultContextAfter == 0

\* scores in hundredths: at minScoreThreshold and above it
ScoreLevels == {1, 2}

\* a document long enough for half of its chunks to exceed maxRelevantLimit
LongSearchLen == 2 * maxRelevantLimit + 2

LongSearchChunks == [i \in 1..LongSearchLen |-> IF i % 2 = 1 THEN <<"a">> ELSE <<"b">>]

\* its search results, ranked from the last chunk to the first: the k best
\* score above the threshold, the others at the threshold
LongScoredOrders ==
    {[r \in 1..LongSearchLen |->
         ChunkWithIndex(LongSearchChunks[LongSearchLen - r + 1], LongSearchLen - r,
                        IF r <= k THEN 2 ELSE 1)] : k \in 0..LongSearchLen}

SearchInputs == SearchLists \cup {LongSearchChunks}

RankOrders(n) ==
    {p \in [1..n -> 0..(n - 1)] : \A i, j \in 1..n : i # j => p[i] # p[j]}

\* the score of each rank, highest first, as performLexicalSearch leaves them.
\* selectWithFixedContext reads Score only when there is no size limit.
ScoreProfiles(n, limit) ==
    IF limit > 0 THEN {[i \in 1..n |-> 2]}
    ELSE {sc \in [1..n -> ScoreLevels] : \A i, j \in 1..n : i < j => sc[i] >= sc[j]}

\* the lists performLexicalSearch can return for chunks: every chunk once,
\* by descending score
ScoredOrders(chunks, limit) ==
    IF chunks = LongSearchChunks
    THEN {o \in LongScoredOrders : limit > 0 => \A r \in 1..Len(o) : o[r].Score = 2}
    ELSE {[r \in 1..Len(chunks) |-> ChunkWithIndex(chunks[p[r] + 1], p[r], sc[r])] :
             p \in RankOrders(Len(chunks)), sc \in ScoreProfiles(Len(chunks), limit)}

InitSelect ==
    /\ IdleSplit
    /\ IdleRest
    /\ IdlePartial
    /\ IdleRun
    /\ counterName \in CounterNames
    /\ maxUnits \in 0..MaxUnitsBound
    /\ strategy \in SizingStrategies
    /\ isSearchMode = FALSE
    /\ selPc = "idle"
    /\ NoCall

\* ApplySizeConstraints up to its call of Select
ApplySizeConstraints ==
    /\ selPc = "idle"
    /\ \E chunks \in ChunkLists :
          /\ allChunks' = chunks
          /\ orderedChunks' = PrepareForStrategy(chunks, strategy)
    /\ contextBefore' = defaultContextBefore
    /\ contextAfter' = defaultContextAfter
    /\ call' = "strategy"
    /\ selPc' = "select"
    /\ UNCHANGED <<selectorVars, selectedChunks, currentUnits, addedIndices, pos,
                   output, rendered, splitVars,
                   partialVars, runVars, restVars>>

\* the search path of applyTransformations: PrepareForSearch, then Select with
\* the caller's context window
PrepareForSearch ==
    /\ selPc = "idle"
    /\ \E chunks \in SearchInputs, window \in ContextWindows :
          \E scored \in ScoredOrders(chunks, maxUnits) :
             /\ allChunks' = chunks
             /\ orderedChunks' = scored
             /\ isSearchMode' = (IF Len(scored) = 0 THEN isSearchMode ELSE TRUE)
             /\ contextBefore' = window[1]
             /\ contextAfter' = window[2]
    /\ call' = "search"
    /\ selPc' = "select"
    /\ UNCHANGED <<counterName, maxUnits, strategy, selectedChunks, currentUnits,
                   addedIndices, pos, output, rendered, splitVars,
                   partialVars, runVars, restVars>>

SetSearchMode ==
    /\ selPc = "idle"
    /\ \E enabled \in BOOLEAN : isSearchMode' = enabled
    /\ UNCHANGED <<counterName, maxUnits, strategy, callVars, splitVars,
                   partialVars, runVars, restVars>>

\* SelectWithContextConfig with no ordered chunk
SelectEmpty ==
    /\ selPc = "select"
    /\ Len(orderedChunks) = 0
    /\ output' = <<>>
    /\ selPc' = "done"
    /\ UNCHANGED <<selectorVars, allChunks, orderedChunks, contextBefore, contextAfter,
                   selectedChunks, currentUnits, addedIndices, pos, rendered, call,
                   splitVars,
                   partialVars, runVars, restVars>>

IndicesOf(sel) == {sel[i].Index : i \in 1..Len(sel)}

\* selectWithFixedContext, no size limit, search mode
SelectNoLimitSearch ==
    /\ selPc = "select"
    /\ Len(orderedChunks) > 0
    /\ maxUnits <= 0
    /\ isSearchMode
    /\ selectedChunks' = addAllWithContext(relevantChunks(orderedChunks), allChunks,
                                           contextBefore, contextAfter, <<>>, {})
    /\ addedIndices' = IndicesOf(selectedChunks')
    /\ selPc' = "format"
    /\ UNCHANGED <<selectorVars, allChunks, orderedChunks, contextBefore, contextAfter,
                   currentUnits, pos, output, rendered, call, splitVars,
                   partialVars, runVars, restVars>>

\* selectWithFixedContext, no size limit, not in search mode
SelectNoLimitAll ==
    /\ selPc = "select"
    /\ Len(orderedChunks) > 0
    /\ maxUnits <= 0
    /\ ~isSearchMode
    /\ selectedChunks' = addAllWithContext(orderedChunks, allChunks,
                                           contextBefore, contextAfter, <<>>, {})
    /\ addedIndices' = IndicesOf(selectedChunks')
    /\ selPc' = "format"
    /\ UNCHANGED <<selectorVars, allChunks, orderedChunks, contextBefore, contextAfter,
                   currentUnits, pos, output, rendered, call, splitVars,
                   partialVars, runVars, restVars>>

\* SelectStep with the unit count started afresh for every ordered chunk
SelectStepUnitsPerChunk ==
    /\ selPc = "select"
    /\ Len(orderedChunks) > 0
    /\ maxUnits > 0
    /\ pos <= Len(orderedChunks)
    /\ currentUnits < maxUnits
    /\ LET r == addCandidates(
                   getChunkWithConfigurableContext(orderedChunks[pos].Index, allChunks,
                                                   contextBefore, contextAfter, addedIndices),
                   selectedChunks, 0, addedIndices, counterName, maxUnits)
       IN  /\ selectedChunks' = r.sel
           /\ currentUnits' = r.cur
           /\ addedIndices' = r.added
           /\ selPc' = IF r.cur >= maxUnits \/ pos = Len(orderedChunks)
                       THEN "format"
                       ELSE "select"
    /\ pos' = pos + 1
    /\ UNCHANGED <<selectorVars, allChunks, orderedChunks, contextBefore, contextAfter,
                   output, rendered, call, splitVars,
                   partialVars, runVars, restVars>>

\* one iteration of the accumulation loop of selectWithFixedContext
SelectStep ==
    /\ selPc = "select"
    /\ Len(orderedChunks) > 0
    /\ maxUnits > 0
    /\ pos <= Len(orderedChunks)
    /\ currentUnits < maxUnits
    /\ LET r == addCandidates(
                   getChunkWithConfigurableContext(orderedChunks[pos].Index, allChunks,
                                                   contextBefore, contextAfter, addedIndices),
                   selectedChunks, currentUnits, addedIndices, counterName, maxUnits)
       IN  /\ selectedChunks' = r.sel
           /\ currentUnits' = r.cur
           /\ addedIndices' = r.added
           /\ selPc' = IF r.cur >= maxUnits \/ pos = Len(orderedChunks)
                       THEN "format"
                       ELSE "select"
    /\ pos' = pos + 1
    /\ UNCHANGED <<selectorVars, allChunks, orderedChunks, contextBefore, contextAfter,
                   output, rendered, call, splitVars,
                   partialVars, runVars, restVars>>

\* formatSelectedChunks and the return of the call
Format ==
    /\ selPc = "format"
    /\ LET f == formatSelectedChunks(selectedChunks, isSearchMode)
       IN  /\ output' = f.out
           /\ rendered' = f.indices
    /\ selPc' = "done"
    /\ UNCHANGED <<selectorVars, allChunks, orderedChunks, contextBefore, contextAfter,
                   selectedChunks, currentUnits, addedIndices, pos, call, splitVars,
                   partialVars, runVars, restVars>>

\* the caller drops the result; the selector is ready for its next call
Return ==
    /\ selPc = "done"
    /\ selPc' = "idle"
    /\ allChunks' = <<>>
    /\ orderedChunks' = <<>>
    /\ contextBefore' = 0
    /\ contextAfter' = 0
    /\ selectedChunks' = <<>>
    /\ currentUnits' = 0
    /\ addedIndices' = {}
    /\ pos' = 1
    /\ output' = <<>>
    /\ rendered' = <<>>
    /\ call' = "none"
    /\ UNCHANGED <<selectorVars, splitVars,
                   partialVars, runVars, restVars>>

NextSelect ==
    \/ ApplySizeConstraints
    \/ PrepareForSearch
    \/ SetSearchMode
    \/ SelectEmpty
    \/ SelectNoLimitSearch
    \/ SelectNoLimitAll
    \/ SelectStep
    \/ Format
    \/ Return

SpecSelect == InitSelect /\ [][NextSelect]_vars

\* a selection call has returned its string
SelectReturned == selPc = "done"

IsStrictlyAscending(idx) == \A i, j \in 1..Len(idx) : i < j => idx[i] < idx[j]

RECURSIVE TotalUnits(_, _)
TotalUnits(name, chunks) ==
    IF chunks = <<>> THEN 0 ELSE Count(name, Head(chunks)) + TotalUnits(name, Tail(chunks))

(***************************************************************************)
(* C3: with the words counter and maxUnits > 0, the string returned by     *)
(* ApplySizeConstraints (strategy mode, context 0/0) never has more than   *)
(* maxUnits words, for every chunk list and every strategy.                *)
(***************************************************************************)
C3_StrategyOutputWithinWordLimit ==
    (SelectReturned /\ call = "strategy" /\ counterName = "words" /\ maxUnits > 0)
        => WordCounterCount(output) <= maxUnits

\* a strategy call that had to cut: the chunks hold more words than the limit
\* and the returned string holds exactly the limit
C3_Witness ==
    /\ SelectReturned /\ call = "strategy" /\ counterName = "words" /\ maxUnits > 0
    /\ TotalUnits("words", allChunks) > maxUnits
    /\ WordCounterCount(output) = maxUnits
    /\ \E i \in 1..Len(selectedChunks) :
          selectedChunks[i].Text # allChunks[selectedChunks[i].Index + 1]

(***************************************************************************)
(* C4: with the words counter and maxUnits > 0, the string returned by     *)
(* Select in search mode never has more than maxUnits words, discontinuity *)
(* markers included.                                                       *)
(***************************************************************************)
C4_SearchOutputWithinWordLimit ==
    (SelectReturned /\ call = "search" /\ counterName = "words" /\ maxUnits > 0)
        => WordCounterCount(output) <= maxUnits

(***************************************************************************)
(* C5: for chunk0..chunk4, the words counter and maxUnits = 2,             *)
(* ApplySizeConstraints returns "chunk0\n\nchunk1" for Beginning,          *)
(* "chunk3\n\nchunk4" for End and "chunk2\n\nchunk3" for Middle.           *)
(***************************************************************************)
C5_FiveChunksScenario ==
    (SelectReturned /\ call = "strategy" /\ allChunks = FiveChunks
        /\ counterName = "words" /\ maxUnits = 2)
        => output = CASE strategy = "Beginning" -> chunkN("0") \o <<NL, NL>> \o chunkN("1")
                      [] strategy = "End"       -> chunkN("3") \o <<NL, NL>> \o chunkN("4")
                      [] strategy = "Middle"    -> chunkN("2") \o <<NL, NL>> \o chunkN("3")

(***************************************************************************)
(* C6: whatever the accumulation order and the context window, the chunks  *)
(* written to the returned string appear in strictly ascending order of    *)
(* their original index.                                                   *)
(***************************************************************************)
C6_OutputAscendingByIndex == SelectReturned => IsStrictlyAscending(rendered)

\* chunks were accumulated out of document order and at least two were written
C6_Witness ==
    /\ SelectReturned
    /\ Len(rendered) >= 2
    /\ \E i \in 1..(Len(selectedChunks) - 1) :
          selectedChunks[i].Index > selectedChunks[i + 1].Index

(***************************************************************************)
(* C7: PrepareForStrategy returns every index 0..n-1 exactly once:         *)
(* Beginning in order 0..n-1, End in order n-1..0, Middle starting at n/2  *)
(* and then alternately the next index to the right and the next to the    *)
(* left until all indices are used.                                        *)
(***************************************************************************)
MinOf(S) == CHOOSE x \in S : \A y \in S : x <= y

MaxOf(S) == CHOOSE x \in S : \A y \in S : x >= y

\* the k-th index of the middle-out order over n chunks, given the earlier ones
MiddleOutNext(idx, k, n) ==
    LET seen  == {idx[i] : i \in 1..(k - 1)}
        right == MaxOf(seen) + 1
        left  == MinOf(seen) - 1
    IN  IF k % 2 = 0
        THEN (IF right <= n - 1 THEN right ELSE left)
        ELSE (IF left >= 0 THEN left ELSE right)

C7_StrategyOrderIsPermutation ==
    (selPc = "select" /\ call = "strategy") =>
        LET n   == Len(allChunks)
            idx == [k \in 1..Len(orderedChunks) |-> orderedChunks[k].Index]
        IN  /\ Len(orderedChunks) = n
            /\ \A i \in 0..(n - 1) : Cardinality({k \in 1..n : idx[k] = i}) = 1
            /\ \A k \in 1..n : orderedChunks[k].Text = allChunks[idx[k] + 1]
            /\ strategy = "Beginning" => \A k \in 1..n : idx[k] = k - 1
            /\ strategy = "End" => \A k \in 1..n : idx[k] = n - k
            /\ strategy = "Middle" =>
                  /\ n > 0 => idx[1] = n \div 2
                  /\ \A k \in 2..n : idx[k] = MiddleOutNext(idx, k, n)

\* middle-out over an even number of chunks: the right side runs out first
C7_Witness ==
    /\ selPc = "select" /\ call = "strategy" /\ strategy = "Middle"
    /\ Len(orderedChunks) = 6
    /\ orderedChunks[6].Index = 0

(***************************************************************************)
(* createPartialChunk called on its own, on either of its two receivers.   *)
(***************************************************************************)
MaxContentLen == 4

\* the characters of a well-formed text: one-byte characters and a two-byte one
TextRunes == {<<"a">>, <<"b">>, <<SP>>, <<NL>>, <<LEAD, CONT>>}

WellFormedTexts == {Flatten(rs) : rs \in SeqsUpTo(TextRunes, MaxContentLen)}

\* ContextCalculator.createPartialChunk, for the words and characters counters
calculatorCreatePartialChunk(name, chunkText, remainingUnits) ==
    IF remainingUnits <= 0 THEN <<>>
    ELSE IF name = "words"
    THEN LET words == Fields(chunkText)
         IN  IF Len(words) > 0
             THEN Join(SubSeq(words, 1, Min(remainingUnits, Len(words))), <<SP>>)
             ELSE <<>>
    ELSE IF Len(chunkText) <= remainingUnits THEN chunkText
    ELSE LET cutoff == cutoffLoop(chunkText, remainingUnits)
         IN  IF cutoff > 0
             THEN TrimSpace(Slice(chunkText, 0, cutoff))
             ELSE Slice(chunkText, 0, remainingUnits)

InitPartial ==
    /\ IdleSplit
    /\ IdleRest
    /\ IdleSelect
    /\ IdleRun
    /\ partialOwner = "none"
    /\ partialCounter \in CounterNames
    /\ partialText \in WellFormedTexts
    /\ partialUnits \in (-1)..MaxUnitsBound
    /\ partialResult = <<>>
    /\ partialPc = "idle"

SelectorCreatePartialChunk ==
    /\ partialPc = "idle"
    /\ partialOwner' = "ChunkSelector"
    /\ partialResult' = createPartialChunk(partialCounter, partialText, partialUnits)
    /\ partialPc' = "done"
    /\ UNCHANGED <<partialCounter, partialText, partialUnits, splitVars, selectorVars,
                   callVars, runVars, restVars>>

CalculatorCreatePartialChunk ==
    /\ partialPc = "idle"
    /\ partialOwner' = "ContextCalculator"
    /\ partialResult' = calculatorCreatePartialChunk(partialCounter, partialText, partialUnits)
    /\ partialPc' = "done"
    /\ UNCHANGED <<partialCounter, partialText, partialUnits, splitVars, selectorVars,
                   callVars, runVars, restVars>>

NextPartial == SelectorCreatePartialChunk \/ CalculatorCreatePartialChunk

SpecPartial == InitPartial /\ [][NextPartial]_vars

PartialReturned == partialPc = "done"

IsPrefix(p, t) == Len(p) <= Len(t) /\ SubSeq(t, 1, Len(p)) = p

(***************************************************************************)
(* C9: for the words and characters counters, whenever                     *)
(* Count(text) > maxUnits > 0 the string createPartialChunk returns is a   *)
(* prefix of text whose Count is exactly maxUnits.                         *)
(***************************************************************************)
C9_PartialIsPrefixOfExactCount ==
    (PartialReturned /\ partialUnits > 0
        /\ Count(partialCounter, partialText) > partialUnits)
        => /\ IsPrefix(partialResult, partialText)
           /\ Count(partialCounter, partialResult) = partialUnits

(***************************************************************************)
(* C10: for the words and characters counters, createPartialChunk returns  *)
(* the empty string when maxUnits <= 0 or text is empty, and returns text  *)
(* itself, byte for byte, whenever Count(text) <= maxUnits.                *)
(***************************************************************************)
C10_PartialOfFittingTextIsText ==
    PartialReturned =>
        /\ (partialUnits <= 0 \/ partialText = <<>>) => partialResult = <<>>
        /\ (partialUnits > 0 /\ Count(partialCounter, partialText) <= partialUnits)
              => partialResult = partialText

(***************************************************************************)
(* internal/app/sift.go: Run and applySimpleSizeLimit.                     *)
(***************************************************************************)
CR == "\r"

\* the characters applySimpleSizeLimit treats as whitespace
simpleSpace == {SP, TAB, NL, CR}

\* the tokenising loop: a token is a word with the whitespace before it; the
\* whitespace after the last word is a token of its own.  The content is
\* well-formed, so the bytes of a character stay together in one token.
RECURSIVE tokenize(_, _, _, _, _)
tokenize(runes, i, currentToken, inWord, tokens) ==
    IF i > Len(runes) THEN tokens
    ELSE LET r       == runes[i]
             isSpace == r \in simpleSpace
             saved   == isSpace /\ inWord /\ currentToken # <<>>
             tokens1 == IF saved THEN Append(tokens, currentToken) ELSE tokens
             token1  == Append(IF saved THEN <<>> ELSE currentToken, r)
             inWord1 == IF isSpace THEN FALSE ELSE TRUE
         IN  IF i = Len(runes)
             THEN Append(tokens1, token1)
             ELSE tokenize(runes, i + 1, token1, inWord1, tokens1)

\* the loop that adds tokens until the limit is reached
RECURSIVE limitLoop(_, _, _, _, _)
limitLoop(tokens, result, cur, max, name) ==
    IF tokens = <<>> THEN result
    ELSE LET tokenUnits == Count(name, Head(tokens))
         IN  IF cur + tokenUnits > max THEN result
             ELSE IF cur + tokenUnits >= max THEN result \o Head(tokens)
             ELSE limitLoop(Tail(tokens), result \o Head(tokens), cur + tokenUnits,
                            max, name)

applySimpleSizeLimit(content, max, countingMethod) ==
    IF max <= 0 THEN content
    ELSE TrimRight(limitLoop(tokenize(content, 1, <<>>, FALSE, <<>>), <<>>, 0, max,
                             countingMethod),
                   simpleSpace)

SearchQueries == {<<>>, <<SP>>, <<"a">>}

Configs ==
    [Sources : 0..1, SearchQuery : SearchQueries, MaxUnits : 0..MaxUnitsBound,
     CountingMethod : CounterNames, SizingStrategy : SizingStrategies]

InitRun ==
    /\ IdleSplit
    /\ IdleRest
    /\ IdleSelect
    /\ IdlePartial
    /\ cfg \in Configs
    /\ combinedContent = <<>>
    /\ runResult = <<>>
    /\ runErr = FALSE
    /\ runPc = "idle"

\* Run with no source: the error return
RunNoSources ==
    /\ runPc = "idle"
    /\ cfg.Sources = 0
    /\ runErr' = TRUE
    /\ runPc' = "done"
    /\ UNCHANGED <<cfg, combinedContent, runResult, splitVars, selectorVars, callVars,
                   partialVars, restVars>>

\* step 1 succeeds: extractAndCombineContent returns the content of the sources
RunExtract ==
    /\ runPc = "idle"
    /\ cfg.Sources > 0
    /\ combinedContent' \in WellFormedTexts
    /\ runPc' = "transform"
    /\ UNCHANGED <<cfg, runResult, runErr, splitVars, selectorVars, callVars, partialVars, restVars>>

\* step 1 fails: Run returns the error of extractAndCombineContent
RunExtractFails ==
    /\ runPc = "idle"
    /\ cfg.Sources > 0
    /\ runErr' = TRUE
    /\ runPc' = "done"
    /\ UNCHANGED <<cfg, combinedContent, runResult, splitVars, selectorVars, callVars,
                   partialVars, restVars>>

\* no search query and no limit: the full content
RunReturnFull ==
    /\ runPc = "transform"
    /\ TrimSpace(cfg.SearchQuery) = <<>>
    /\ cfg.MaxUnits <= 0
    /\ runResult' = combinedContent
    /\ runPc' = "done"
    /\ UNCHANGED <<cfg, combinedContent, runErr, splitVars, selectorVars, callVars,
                   partialVars, restVars>>

\* no search query and a limit: applySimpleSizeLimit
RunSimpleSizeLimit ==
    /\ runPc = "transform"
    /\ TrimSpace(cfg.SearchQuery) = <<>>
    /\ cfg.MaxUnits > 0
    /\ runResult' = applySimpleSizeLimit(combinedContent, cfg.MaxUnits, cfg.CountingMethod)
    /\ runPc' = "done"
    /\ UNCHANGED <<cfg, combinedContent, runErr, splitVars, selectorVars, callVars,
                   partialVars, restVars>>

\* a search query: Run hands the content to applySearchTransformations, whose
\* selection is the search call of the chunk selector
RunSearch ==
    /\ runPc = "transform"
    /\ TrimSpace(cfg.SearchQuery) # <<>>
    /\ runPc' = "search"
    /\ UNCHANGED <<cfg, combinedContent, runResult, runErr, splitVars, selectorVars,
                   callVars, partialVars, restVars>>

NextRun ==
    \/ RunNoSources
    \/ RunExtract
    \/ RunExtractFails
    \/ RunReturnFull
    \/ RunSimpleSizeLimit
    \/ RunSearch

SpecRun == InitRun /\ [][NextRun]_vars

RunReturned == runPc = "done" /\ ~runErr

(***************************************************************************)
(* C8: when Run is called with an empty search query and MaxUnits > 0, the *)
(* content is reduced according to SizingStrategy.  Stated for the words   *)
(* counter and a content of more than MaxUnits words: the words kept are a *)
(* contiguous run of the content's words that starts at the first word for *)
(* Beginning, ends at the last word for End, and contains the middle word  *)
(* (index n/2) for Middle.                                                 *)
(***************************************************************************)
C8_RunReducesBySizingStrategy ==
    (RunReturned /\ TrimSpace(cfg.SearchQuery) = <<>> /\ cfg.MaxUnits > 0
        /\ cfg.CountingMethod = "words"
        /\ Count("words", combinedContent) > cfg.MaxUnits)
        => LET words == Fields(combinedContent)
               kept  == Fields(runResult)
               n     == Len(words)
               k     == Len(kept)
           IN  /\ k >= 1
               /\ cfg.SizingStrategy = "Beginning" => kept = SubSeq(words, 1, k)
               /\ cfg.SizingStrategy = "End" => kept = SubSeq(words, n - k + 1, n)
               /\ cfg.SizingStrategy = "Middle" =>
                     \E off \in 0..(n - k) :
                         /\ kept = SubSeq(words, off + 1, off + k)
                         /\ off + 1 <= (n \div 2) + 1
                         /\ (n \div 2) + 1 <= off + k

(***************************************************************************)
(* Claims on the accumulation loop of selectWithFixedContext.              *)
(***************************************************************************)
\* the texts of the selected chunks, in the order they were selected
SelectedTexts == [i \in 1..Len(selectedChunks) |-> selectedChunks[i].Text]

\* the i-th selected chunk is a partial chunk: its text is not the chunk's text
IsTruncated(i) == selectedChunks[i].Text # allChunks[selectedChunks[i].Index + 1]

(***************************************************************************)
(* C11: in a size-constrained fixed-count selection (maxUnits > 0), when a *)
(* chunk was truncated to fit, it is the only truncated chunk, it is the   *)
(* last chunk selected, and the units actually selected are exactly        *)
(* maxUnits.                                                               *)
(***************************************************************************)
C11_OnePartialHitsLimitThenStops ==
    (SelectReturned /\ maxUnits > 0) =>
        \A i \in 1..Len(selectedChunks) :
            IsTruncated(i) =>
                /\ i = Len(selectedChunks)
                /\ TotalUnits(counterName, SelectedTexts) = maxUnits

(***************************************************************************)
(* C12: with maxUnits <= 0 in strategy mode, the string returned by        *)
(* ApplySizeConstraints holds every input chunk in ascending document      *)
(* order, for every strategy: its words are the words of the chunks, in    *)
(* order, none dropped.                                                    *)
(***************************************************************************)
C12_NoLimitStrategyKeepsEveryChunk ==
    (SelectReturned /\ call = "strategy" /\ maxUnits <= 0)
        => Fields(output) = WordsOfChunks(allChunks)

(***************************************************************************)
(* Claims on the no-limit search branch of selectWithFixedContext.         *)
(***************************************************************************)
NoLimitSearchSelected ==
    /\ selPc \in {"format", "done"}
    /\ call = "search"
    /\ maxUnits <= 0
    /\ Len(orderedChunks) > 0

\* the ranked chunks whose score is above the threshold, in rank order
PassingChunks == SelectSeq(orderedChunks, LAMBDA c : c.Score > minScoreThreshold)

\* the indices selected around target index t by the context window
WindowOf(t) ==
    {i \in 0..(Len(allChunks) - 1) : t - contextBefore <= i /\ i <= t + contextAfter}

\* the indices selected when targets are the first count chunks of ranked
SelectedAround(ranked, count) ==
    UNION {WindowOf(ranked[r].Index) : r \in 1..Min(count, Len(ranked))}

(***************************************************************************)
(* C13, as stated: in search mode with maxUnits <= 0 and k chunks scoring  *)
(* above 0.01, at most min(k / 2, 5) ranked chunks are targets, all of     *)
(* them scoring above 0.01; when k = 0 the targets are the top 2 ranked    *)
(* chunks.  Read on calls with context 0/0, where the selected chunks are  *)
(* the targets.                                                            *)
(***************************************************************************)
C13_TargetsAtMostHalfOrFive ==
    (NoLimitSearchSelected /\ contextBefore = 0 /\ contextAfter = 0) =>
        LET k == Len(PassingChunks)
        IN  IF k = 0
            THEN IndicesOf(selectedChunks) = SelectedAround(orderedChunks, maxFallback)
            ELSE /\ Len(selectedChunks) <= Min(k \div 2, maxRelevantLimit)
                 /\ IndicesOf(selectedChunks) \subseteq IndicesOf(PassingChunks)

(***************************************************************************)
(* C13, amended: with k >= 1 the targets are the min(max(1, k / 2), 5)     *)
(* best-ranked chunks scoring above 0.01 (one target when k = 1); with     *)
(* k = 0 they are the top 2 ranked chunks.  The chunks selected are the    *)
(* targets and their context window.                                       *)
(***************************************************************************)
C13_TargetsHalfAtLeastOneAtMostFive ==
    NoLimitSearchSelected =>
        LET k == Len(PassingChunks)
        IN  IndicesOf(selectedChunks) =
                IF k = 0
                THEN SelectedAround(orderedChunks, maxFallback)
                ELSE SelectedAround(PassingChunks, Min(Max(1, k \div 2), maxRelevantLimit))

\* more than ten chunks pass the threshold and exactly five are selected
C13_Witness ==
    /\ NoLimitSearchSelected /\ selPc = "done"
    /\ contextBefore = 0 /\ contextAfter = 0
    /\ Len(PassingChunks) > 2 * maxRelevantLimit
    /\ Len(PassingChunks) < Len(orderedChunks)
    /\ Len(selectedChunks) = maxRelevantLimit

(***************************************************************************)
(* internal/app/sift.go: performLexicalSearch.  The scores corpus.Score    *)
(* gives the chunks are the input; a score is an integer rank of the       *)
(* float.  A ChunkScore is kept as its Index and Score (its Chunk is the   *)
(* text at Index).                                                         *)
(***************************************************************************)
ChunkScore(i, sc) == [Index |-> i, Score |-> sc]

\* sort.Slice sorts slices of at most this many elements by insertion
maxInsertion == 12

\* insertion keeps c behind every element that does not score less
RECURSIVE insertByScore(_, _)
insertByScore(sorted, c) ==
    IF sorted = <<>> THEN <<c>>
    ELSE IF c.Score > Head(sorted).Score THEN <<c>> \o sorted
    ELSE <<Head(sorted)>> \o insertByScore(Tail(sorted), c)

RECURSIVE stableByScore(_, _)
stableByScore(scored, sorted) ==
    IF scored = <<>> THEN sorted
    ELSE stableByScore(Tail(scored), insertByScore(sorted, Head(scored)))

\* every order of the elements of a short sequence
OrdersOf(group) ==
    {[i \in 1..Len(group) |-> group[f[i]]] :
        f \in {g \in [1..Len(group) -> 1..Len(group)] :
                 \A i, j \in 1..Len(group) : i # j => g[i] # g[j]}}

\* the leading elements of sorted that score the same as its first
RECURSIVE tieGroup(_)
tieGroup(sorted) ==
    IF Len(sorted) >= 2 /\ sorted[2].Score = sorted[1].Score
    THEN <<sorted[1]>> \o tieGroup(Tail(sorted))
    ELSE <<sorted[1]>>

\* every order that is descending by score
RECURSIVE tieOrders(_)
tieOrders(sorted) ==
    IF sorted = <<>> THEN {<<>>}
    ELSE LET group == tieGroup(sorted)
             rest  == SubSeq(sorted, Len(group) + 1, Len(sorted))
         IN  {g \o t : g \in OrdersOf(group), t \in tieOrders(rest)}

\* sort.Slice with less = higher score first: the sort is not stable, so beyond
\* the insertion sort of short slices equal scores may come out in any order
sortSliceByScore(scored) ==
    IF Len(scored) <= maxInsertion
    THEN {stableByScore(scored, <<>>)}
    ELSE tieOrders(stableByScore(scored, <<>>))

SearchScoreValues == 0..3

ShortScores == SeqsUpTo(SearchScoreValues, MaxChunks)

\* one more chunk than an insertion sort takes; chunk i scores i, except that one
\* of the last two chunks scores the same as one of the first two
LongScores ==
    {[i \in 1..(maxInsertion + 1) |-> IF i = q THEN p ELSE i] :
        p \in 1..2, q \in maxInsertion..(maxInsertion + 1)}

InitSearch ==
    /\ IdleSplit
    /\ IdleSelect
    /\ IdlePartial
    /\ IdleRun
    /\ IdleClassify
    /\ IdleScore
    /\ IdleCalc
    /\ IdleMore
    /\ searchScores \in ShortScores \cup LongScores
    /\ scoredChunks = <<>>
    /\ searchPc = "idle"

\* no chunk: the empty result
PerformLexicalSearchEmpty ==
    /\ searchPc = "idle"
    /\ Len(searchScores) = 0
    /\ scoredChunks' = <<>>
    /\ searchPc' = "done"
    /\ UNCHANGED <<searchScores, splitVars, selectorVars, callVars, partialVars, runVars,
                   classifyVars, scoreVars, calcVars, moreVars>>

\* score every chunk, then sort by score, highest first
PerformLexicalSearch ==
    /\ searchPc = "idle"
    /\ Len(searchScores) > 0
    /\ scoredChunks' \in sortSliceByScore(
           [i \in 1..Len(searchScores) |-> ChunkScore(i - 1, searchScores[i])])
    /\ searchPc' = "done"
    /\ UNCHANGED <<searchScores, splitVars, selectorVars, callVars, partialVars, runVars,
                   classifyVars, scoreVars, calcVars, moreVars>>

NextSearch == PerformLexicalSearchEmpty \/ PerformLexicalSearch

SpecSearch == InitSearch /\ [][NextSearch]_vars

SearchReturned == searchPc = "done"

RECURSIVE accumulateFresh(_, _, _, _, _)
accumulateFresh(ordered, all, st, name, max) ==
    IF ordered = <<>> \/ st.cur >= max THEN st.sel
    ELSE accumulateFresh(
             Tail(ordered), all,
             addCandidates(
                 getChunkWithConfigurableContext(Head(ordered).Index, all,
                                                 defaultContextBefore, defaultContextAfter,
                                                 st.added),
                 st.sel, st.cur, st.added, name, max),
             name, max)

FreshStrategyOutput ==
    LET ordered  == PrepareForStrategy(allChunks, strategy)
        selected == IF maxUnits <= 0
                    THEN addAllWithContext(ordered, allChunks, defaultContextBefore,
                                           defaultContextAfter, <<>>, {})
                    ELSE accumulateFresh(ordered, allChunks,
                                         [sel |-> <<>>, cur |-> 0, added |-> {}],
                                         counterName, maxUnits)
    IN  IF Len(ordered) = 0 THEN <<>> ELSE formatSelectedChunks(selected, FALSE).out

(***************************************************************************)
(* C15: for a fixed selector configuration, ApplySizeConstraints called    *)
(* with the same chunks returns the same string whatever was called on the *)
(* selector before (PrepareForSearch, SetSearchMode, earlier selections):  *)
(* the string it returns on a fresh selector.                              *)
(***************************************************************************)
C15_ResultIndependentOfEarlierCalls ==
    (SelectReturned /\ call = "strategy") => output = FreshStrategyOutput

(***************************************************************************)
(* internal/classify/classify.go.  Its float64 arithmetic is modelled bit   *)
(* for bit: a natural number is the sequence of its limbs of limbBits bits, *)
(* lowest limb first, highest limb not zero; a non-negative float is        *)
(* n * 2^e with n of at most 53 bits.                                       *)
(***************************************************************************)
limbBits == 15

limbBase == 2 ^ limbBits

RECURSIVE Limbs(_)
Limbs(k) == IF k = 0 THEN <<>> ELSE <<k % limbBase>> \o Limbs(k \div limbBase)

RECURSIVE NormLimbs(_)
NormLimbs(a) ==
    IF a # <<>> /\ a[Len(a)] = 0 THEN NormLimbs(SubSeq(a, 1, Len(a) - 1)) ELSE a

LimbAt(a, i) == IF i <= Len(a) THEN a[i] ELSE 0

RECURSIVE AddLimbsFrom(_, _, _, _)
AddLimbsFrom(a, b, i, carry) ==
    IF i > Len(a) /\ i > Len(b) THEN (IF carry = 0 THEN <<>> ELSE <<carry>>)
    ELSE LET s == LimbAt(a, i) + LimbAt(b, i) + carry
         IN  <<s % limbBase>> \o AddLimbsFrom(a, b, i + 1, s \div limbBase)

AddLimbs(a, b) == AddLimbsFrom(a, b, 1, 0)

RECURSIVE SubLimbsFrom(_, _, _, _)
SubLimbsFrom(a, b, i, borrow) ==
    IF i > Len(a) THEN <<>>
    ELSE LET d == LimbAt(a, i) - LimbAt(b, i) - borrow
         IN  <<d % limbBase>> \o SubLimbsFrom(a, b, i + 1, IF d < 0 THEN 1 ELSE 0)

\* a - b for a >= b
SubLimbs(a, b) == NormLimbs(SubLimbsFrom(a, b, 1, 0))

\* a * m + carry for a single limb m
RECURSIVE MulSmallFrom(_, _, _, _)
MulSmallFrom(a, m, i, carry) ==
    IF i > Len(a) THEN (IF carry = 0 THEN <<>> ELSE <<carry>>)
    ELSE LET p == a[i] * m + carry
         IN  <<p % limbBase>> \o MulSmallFrom(a, m, i + 1, p \div limbBase)

MulSmall(a, m, carry) == NormLimbs(MulSmallFrom(a, m, 1, carry))

RECURSIVE MulLimbsFrom(_, _, _)
MulLimbsFrom(a, b, i) ==
    IF i > Len(a) THEN <<>>
    ELSE AddLimbs(MulSmall(b, a[i], 0),
                  LET rest == MulLimbsFrom(a, b, i + 1)
                  IN  IF rest = <<>> THEN <<>> ELSE <<0>> \o rest)

MulLimbs(a, b) == NormLimbs(MulLimbsFrom(a, b, 1))

\* a * 2^k
ShlLimbs(a, k) ==
    IF a = <<>> THEN <<>>
    ELSE [i \in 1..(k \div limbBits) |-> 0] \o MulSmall(a, 2 ^ (k % limbBits), 0)

\* a divided by a single limb d, from the highest limb down: quotient and remainder
RECURSIVE DivSmallFrom(_, _, _, _, _)
DivSmallFrom(a, d, i, r, q) ==
    IF i = 0 THEN [q |-> NormLimbs(q), r |-> r]
    ELSE LET cur == r * limbBase + a[i]
         IN  DivSmallFrom(a, d, i - 1, cur % d, <<cur \div d>> \o q)

DivSmall(a, d) == DivSmallFrom(a, d, Len(a), 0, <<>>)

\* a / 2^k rounded down, and whether bits were lost
ShrLimbs(a, k) ==
    LET whole == k \div limbBits
        high  == SubSeq(a, whole + 1, Len(a))
        d     == DivSmall(high, 2 ^ (k % limbBits))
    IN  [q       |-> d.q,
         inexact |-> d.r # 0 \/ \E i \in 1..(IF whole < Len(a) THEN whole ELSE Len(a)) : a[i] # 0]

BitLen(a) ==
    IF a = <<>> THEN 0
    ELSE limbBits * (Len(a) - 1)
         + (CHOOSE k \in 1..limbBits : 2 ^ (k - 1) <= a[Len(a)] /\ a[Len(a)] < 2 ^ k)

\* a < b, compared from limb i down
RECURSIVE LessLimbsFrom(_, _, _)
LessLimbsFrom(a, b, i) ==
    IF i = 0 THEN FALSE
    ELSE IF a[i] # b[i] THEN a[i] < b[i]
    ELSE LessLimbsFrom(a, b, i - 1)

LessLimbs(a, b) ==
    IF Len(a) # Len(b) THEN Len(a) < Len(b) ELSE LessLimbsFrom(a, b, Len(a))

Dyadic(n, e) == [n |-> n, e |-> e]

LowerExp(x, y) == IF x.e < y.e THEN x.e ELSE y.e

AlignedLimbs(x, e) == ShlLimbs(x.n, x.e - e)

DyadicAdd(x, y) ==
    Dyadic(AddLimbs(AlignedLimbs(x, LowerExp(x, y)), AlignedLimbs(y, LowerExp(x, y))),
           LowerExp(x, y))

\* x - y for x >= y
DyadicSub(x, y) ==
    Dyadic(SubLimbs(AlignedLimbs(x, LowerExp(x, y)), AlignedLimbs(y, LowerExp(x, y))),
           LowerExp(x, y))

DyadicMul(x, y) == Dyadic(MulLimbs(x.n, y.n), x.e + y.e)

DyadicLess(x, y) ==
    LessLimbs(AlignedLimbs(x, LowerExp(x, y)), AlignedLimbs(y, LowerExp(x, y)))

\* the significand of a float64 has 53 bits
significandBits == 53

\* round to the nearest float64, ties to even (the values of the classifier are
\* far from the subnormal and the overflow range)
RoundFloat64(x) ==
    LET drop   == BitLen(x.n) - significandBits
        above  == ShrLimbs(x.n, drop - 1)
        kept   == ShrLimbs(above.q, 1).q
        up     == /\ above.q[1] % 2 = 1
                  /\ above.inexact \/ kept[1] % 2 = 1
    IN  IF drop <= 0 THEN x
        ELSE Dyadic(IF up THEN AddLimbs(kept, <<1>>) ELSE kept, x.e + drop)

Float64(k) == Dyadic(Limbs(k), 0)

\* the quotient is taken this many limbs below the binary point
quotientLimbs == 5

\* float64(a) / float64(b) for naturals a and b, 0 < b < limbBase / 2: the
\* quotient of a * 2^(quotientLimbs * limbBits) by b, with one more bit that
\* tells whether a remainder is left, rounded
Float64Quo(a, b) ==
    LET d == DivSmall([i \in 1..quotientLimbs |-> 0] \o Limbs(a), b)
    IN  IF a = 0 THEN Float64(0)
        ELSE RoundFloat64(Dyadic(MulSmall(d.q, 2, IF d.r = 0 THEN 0 ELSE 1),
                                 0 - quotientLimbs * limbBits - 1))

Float64Add(x, y) == RoundFloat64(DyadicAdd(x, y))

Float64Sub(x, y) == RoundFloat64(DyadicSub(x, y))

Float64Mul(x, y) == RoundFloat64(DyadicMul(x, y))

minThreshold == Float64Quo(1, 10)

maxThreshold == Float64Quo(33, 100)

\* 0.33 and 0.5
defaultThreshold == Float64Quo(33, 100)

smallDocThreshold == Float64Quo(1, 2)

calculateThreshold(chunkIndex, totalChunks, fused) ==
    LET relativePosition == Float64Quo(chunkIndex, totalChunks - 1)
        doubled          == Dyadic(relativePosition.n, relativePosition.e + 1)
        one              == Float64(1)
        distance         == IF DyadicLess(doubled, one)
                            THEN Float64Sub(one, doubled)
                            ELSE Float64Sub(doubled, one)
        positionFactor   == Float64Sub(one, distance)
        range            == Float64Sub(maxThreshold, minThreshold)
    IN  IF totalChunks <= 0 THEN defaultThreshold
        ELSE IF chunkIndex < 0 \/ chunkIndex >= totalChunks THEN defaultThreshold
        ELSE IF totalChunks <= 3 THEN smallDocThreshold
        ELSE IF fused
        THEN RoundFloat64(DyadicAdd(minThreshold, DyadicMul(range, positionFactor)))
        ELSE Float64Add(minThreshold, Float64Mul(range, positionFactor))

\* tokens: for each token the regular expression finds, whether its stem is in
\* extraneousStopwords
IsExtraneous(tokens, chunkIndex, totalChunks, fused) ==
    LET stopwordCount == Cardinality({i \in 1..Len(tokens) : tokens[i]})
        stopwordRatio == Float64Quo(stopwordCount, Len(tokens))
        threshold     == calculateThreshold(chunkIndex, totalChunks, fused)
    IN  IF totalChunks <= 0 \/ chunkIndex < 0 \/ chunkIndex >= totalChunks THEN FALSE
        ELSE IF Len(tokens) = 0 THEN TRUE
        ELSE DyadicLess(threshold, stopwordRatio)

MaxTokens == 4

MaxTotalChunks == 13

\* short chunks, and chunks of 24 tokens; the stopwords come first
TokenLists ==
    {[i \in 1..n |-> i <= k] : <<n, k>> \in {<<n, k>> \in ((0..MaxTokens) \cup {24}) \X (0..24) : k <= n}}

InitClassify ==
    /\ IdleSplit
    /\ IdleSelect
    /\ IdlePartial
    /\ IdleRun
    /\ IdleSearch
    /\ IdleScore
    /\ IdleCalc
    /\ IdleMore
    /\ classifyTokens \in TokenLists
    /\ classifyTotal \in (-1)..MaxTotalChunks
    /\ classifyIndex \in (-1)..MaxTotalChunks
    /\ classifyIndex <= classifyTotal
    /\ fusedMultiplyAdd \in BOOLEAN
    /\ extraneous = FALSE
    /\ classifyPc = "idle"

\* the call of IsExtraneous
IsExtraneousCall ==
    /\ classifyPc = "idle"
    /\ extraneous' = IsExtraneous(classifyTokens, classifyIndex, classifyTotal,
                                  fusedMultiplyAdd)
    /\ classifyPc' = "done"
    /\ UNCHANGED <<classifyTokens, classifyIndex, classifyTotal, fusedMultiplyAdd,
                   splitVars, selectorVars, callVars, partialVars, runVars, searchVars,
                   scoreVars, calcVars, moreVars>>

NextClassify == IsExtraneousCall

SpecClassify == InitClassify /\ [][NextClassify]_vars

ClassifyReturned == classifyPc = "done"

\* |v|
AbsInt(v) == IF v < 0 THEN 0 - v ELSE v

\* stopwords / tokens > threshold(index, total), in exact arithmetic:
\* threshold = 1/2 for total <= 3, else
\* (10 * d + 23 * (d - |2 * index - d|)) / (100 * d) with d = total - 1
RatioAboveThreshold(stopwords, tokens, index, total) ==
    IF total <= 3 THEN 2 * stopwords > tokens
    ELSE LET d == total - 1
         IN  stopwords * 100 * d > tokens * (10 * d + 23 * (d - AbsInt(2 * index - d)))

(***************************************************************************)
(* C16: IsExtraneous(text, index, total) returns true if and only if the   *)
(* position is valid (total > 0 and 0 <= index < total) and either the     *)
(* text has no alphabetic token or stopwords/tokens is strictly greater    *)
(* than threshold(index, total); a ratio equal to the threshold is not     *)
(* extraneous.                                                             *)
(***************************************************************************)
C16_ExtraneousIffRatioAboveThreshold ==
    ClassifyReturned =>
        (extraneous <=>
            /\ classifyTotal > 0 /\ classifyIndex >= 0 /\ classifyIndex < classifyTotal
            /\ \/ Len(classifyTokens) = 0
               \/ RatioAboveThreshold(Cardinality({i \in 1..Len(classifyTokens) :
                                                        classifyTokens[i]}),
                                      Len(classifyTokens), classifyIndex, classifyTotal))

(***************************************************************************)
(* internal/tfidf/tfidf.go.  A text is a sequence of bytes.  A term        *)
(* frequency count/totalTerms is kept as the pair of its two integers, and *)
(* math.Log by its value in thousandths, so a score is a number of         *)
(* thousandths over the number of terms of the document.                   *)
(***************************************************************************)
\* strings.ToLower, on the bytes of the inputs
toLower(txt) ==
    [i \in 1..Len(txt) |-> IF txt[i] = "A" THEN "a" ELSE IF txt[i] = "B" THEN "b" ELSE txt[i]]

\* tokenRegex [^a-zA-Z0-9_-]+ : the bytes that do not separate tokens
termBytes == {"a", "b", "A", "B", "0", "1", "_", "-"}

minTermLength == 3

\* tokenRegex.Split(txt, -1) and the length filter, from byte i on; cur is the
\* token being read
RECURSIVE splitAndFilter(_, _, _)
splitAndFilter(txt, i, cur) ==
    LET kept == IF Len(cur) >= minTermLength THEN <<cur>> ELSE <<>>
    IN  IF i > Len(txt) THEN kept
        ELSE IF txt[i] \in termBytes THEN splitAndFilter(txt, i + 1, Append(cur, txt[i]))
        ELSE kept \o splitAndFilter(txt, i + 1, <<>>)

tfidfTokenize(txt) ==
    IF txt = <<>> THEN <<>> ELSE splitAndFilter(toLower(txt), 1, <<>>)

Terms(tokens) == {tokens[i] : i \in 1..Len(tokens)}

\* term |-> count, with the total the counts are divided by
calculateTermFrequency(tokens) ==
    [count      |-> [t \in Terms(tokens) |-> Cardinality({i \in 1..Len(tokens) : tokens[i] = t})],
     totalTerms |-> Len(tokens)]

NewCorpus(documents) ==
    LET tokens == [d \in 1..Len(documents) |-> tfidfTokenize(documents[d])]
        all    == UNION {Terms(tokens[d]) : d \in 1..Len(documents)}
    IN  [Documents       |-> documents,
         TermFrequencies |-> [d \in 1..Len(documents) |-> calculateTermFrequency(tokens[d])],
         DocFrequencies  |-> [t \in all |->
                                 Cardinality({d \in 1..Len(documents) : t \in Terms(tokens[d])})],
         TotalDocuments  |-> Len(documents)]

\* 1000 * ln(n), rounded, for n = 1..6
logThousandths == <<0, 693, 1099, 1386, 1609, 1792>>

\* a mutation of idf: the logarithm of the inverse ratio
idfOfDocumentShare(total, docFreq) == logThousandths[docFreq] - logThousandths[total]

\* math.Log(float64(c.TotalDocuments) / float64(docFreq)), in thousandths
idf(total, docFreq) == logThousandths[total] - logThousandths[docFreq]

\* the loop of Score over the query terms from the k-th on: the sum of
\* count * idf over the terms the document has
RECURSIVE sumQueryTerms(_, _, _, _)
sumQueryTerms(c, queryTerms, docTF, k) ==
    IF k > Len(queryTerms) THEN 0
    ELSE LET term == queryTerms[k]
             rest == sumQueryTerms(c, queryTerms, docTF, k + 1)
         IN  IF term \notin DOMAIN docTF.count THEN rest
             ELSE IF term \notin DOMAIN c.DocFrequencies THEN rest
             ELSE docTF.count[term] * idf(c.TotalDocuments, c.DocFrequencies[term]) + rest

zeroScore == [thousandths |-> 0, over |-> 1]

Score(c, query, docIndex) ==
    LET queryTerms == tfidfTokenize(query)
        docTF      == c.TermFrequencies[docIndex + 1]
    IN  IF docIndex < 0 \/ docIndex >= Len(c.Documents) THEN zeroScore
        ELSE IF Len(queryTerms) = 0 THEN zeroScore
        ELSE [thousandths |-> sumQueryTerms(c, queryTerms, docTF, 1),
              over        |-> IF docTF.totalTerms = 0 THEN 1 ELSE docTF.totalTerms]

MaxDocs == 3

MaxCorpusWords == 3

DocumentWords == {<<"A", "a", "a">>, <<"a", "-", "b">>, <<"a", "b">>}

QueryWords == {<<"a", "a", "a">>, <<"a", "-", "b">>, <<"a", "b">>}

\* the words with ". " between them
RECURSIVE JoinWords(_)
JoinWords(ws) ==
    IF ws = <<>> THEN <<>>
    ELSE IF Len(ws) = 1 THEN ws[1]
    ELSE ws[1] \o <<".", " ">> \o JoinWords(Tail(ws))

RECURSIVE SumSeq(_)
SumSeq(ns) == IF ns = <<>> THEN 0 ELSE Head(ns) + SumSeq(Tail(ns))

\* the words cut into documents of the given numbers of words
RECURSIVE CutWords(_, _)
CutWords(ws, shape) ==
    IF shape = <<>> THEN <<>>
    ELSE <<JoinWords(SubSeq(ws, 1, Head(shape)))>>
         \o CutWords(SubSeq(ws, Head(shape) + 1, Len(ws)), Tail(shape))

\* at most MaxDocs documents (some may be empty) of MaxCorpusWords words in all
DocumentLists ==
    {CutWords(p[1], p[2]) :
        p \in {q \in SeqsUpTo(DocumentWords, MaxCorpusWords)
                      \X SeqsUpTo(0..MaxCorpusWords, MaxDocs) : Len(q[1]) = SumSeq(q[2])}}

\* the empty query, one word, two words
Queries == {JoinWords(ws) : ws \in SeqsUpTo(QueryWords, 2)}

InitScore ==
    /\ IdleSplit
    /\ IdleSelect
    /\ IdlePartial
    /\ IdleRun
    /\ IdleSearch
    /\ IdleClassify
    /\ IdleCalc
    /\ IdleMore
    /\ \E documents \in DocumentLists : corpus = NewCorpus(documents)
    /\ scoreQuery \in Queries
    /\ scoreDocIndex \in (-1)..MaxDocs
    /\ totalScore = <<>>
    /\ scorePc = "idle"

ScoreUnchanged ==
    UNCHANGED <<corpus, scoreQuery, scoreDocIndex, splitVars, selectorVars, callVars,
                partialVars, runVars, searchVars, classifyVars, calcVars, moreVars>>

\* docIndex out of range
ScoreInvalidIndex ==
    /\ scorePc = "idle"
    /\ scoreDocIndex < 0 \/ scoreDocIndex >= Len(corpus.Documents)
    /\ totalScore' = Score(corpus, scoreQuery, scoreDocIndex)
    /\ scorePc' = "done"
    /\ ScoreUnchanged

\* no query term left by the tokenizer
ScoreEmptyQuery ==
    /\ scorePc = "idle"
    /\ ~(scoreDocIndex < 0 \/ scoreDocIndex >= Len(corpus.Documents))
    /\ Len(tfidfTokenize(scoreQuery)) = 0
    /\ totalScore' = Score(corpus, scoreQuery, scoreDocIndex)
    /\ scorePc' = "done"
    /\ ScoreUnchanged

\* the sum over the query terms
ScoreSum ==
    /\ scorePc = "idle"
    /\ ~(scoreDocIndex < 0 \/ scoreDocIndex >= Len(corpus.Documents))
    /\ Len(tfidfTokenize(scoreQuery)) > 0
    /\ totalScore' = Score(corpus, scoreQuery, scoreDocIndex)
    /\ scorePc' = "done"
    /\ ScoreUnchanged

NextScore == ScoreInvalidIndex \/ ScoreEmptyQuery \/ ScoreSum

SpecScore == InitScore /\ [][NextScore]_vars

ScoreReturned == scorePc = "done"

\* the words of length >= 3 of a text, lower case: maximal runs of bytes other
\* than the separators "." and " "
RECURSIVE LongWords(_, _)
LongWords(txt, cur) ==
    LET kept == IF Len(cur) >= 3 THEN {cur} ELSE {}
    IN  IF txt = <<>> THEN kept
        ELSE IF Head(txt) \in {".", " "} THEN kept \cup LongWords(Tail(txt), <<>>)
        ELSE LongWords(Tail(txt), Append(cur, IF Head(txt) = "A" THEN "a" ELSE Head(txt)))

\* some query word of length >= 3 is a word of document scoreDocIndex
QueryTermOccurs ==
    LongWords(scoreQuery, <<>>) \cap LongWords(corpus.Documents[scoreDocIndex + 1], <<>>) # {}

(***************************************************************************)
(* C17: Corpus.Score(query, i) is never negative, and it is exactly 0 when *)
(* the query has no token of length >= 3, when the corpus is empty, when i *)
(* is out of range, or when no query term occurs in document i.            *)
(***************************************************************************)
C17_ScoreNonNegativeZeroWithoutOverlap ==
    ScoreReturned =>
        /\ totalScore.thousandths >= 0
        /\ totalScore.over > 0
        /\ ( \/ LongWords(scoreQuery, <<>>) = {}
             \/ Len(corpus.Documents) = 0
             \/ scoreDocIndex < 0
             \/ scoreDocIndex >= Len(corpus.Documents)
             \/ ~QueryTermOccurs ) => totalScore.thousandths = 0

\* a query of two terms scored against a document that has one of them, which
\* another document lacks: the score is positive
C17_Witness ==
    /\ ScoreReturned
    /\ Len(tfidfTokenize(scoreQuery)) = 2
    /\ scoreDocIndex >= 0 /\ scoreDocIndex < Len(corpus.Documents)
    /\ QueryTermOccurs
    /\ totalScore.thousandths > 0

(***************************************************************************)
(* C18: no chunk returned by SplitText is empty or made of whitespace      *)
(* only (newlines included).                                               *)
(***************************************************************************)
C18_NoBlankChunk ==
    SplitReturned => \A i \in 1..Len(finalChunks) : Fields(finalChunks[i]) # <<>>

(***************************************************************************)
(* C19: with the characters counter and maxUnits > 0, the number of        *)
(* characters of the string returned by ApplySizeConstraints, separators   *)
(* included, is at most maxUnits + maxUnits / 10 (integer division), for   *)
(* every chunk list and every strategy.                                    *)
(***************************************************************************)
C19_CharactersWithinTenPercent ==
    (SelectReturned /\ call = "strategy" /\ counterName = "characters" /\ maxUnits > 0)
        => CharCounterCount(output) <= maxUnits + maxUnits \div 10

(***************************************************************************)
(* internal/app/context_calculator.go: the context of one search result   *)
(* within a budget of units.                                               *)
(***************************************************************************)
\* the byte 0x60 (backquote)
BQ == "x60"

\* the number of leading bytes of s that are in set
RECURSIVE LeadingRun(_, _)
LeadingRun(s, set) ==
    IF s = <<>> \/ Head(s) \notin set THEN 0 ELSE 1 + LeadingRun(Tail(s), set)

ByteAt(s, i) == IF i >= 1 /\ i <= Len(s) THEN s[i] ELSE ""

\* ^\s*#{1,6}\s+
headerRegex(s) ==
    LET t      == SubSeq(s, LeadingRun(s, SpaceBytes) + 1, Len(s))
        hashes == LeadingRun(t, {"#"})
    IN  \E k \in 1..6 : k <= hashes /\ IsSpace(ByteAt(t, k + 1))

\* ^\s*[-*+]\s+
bulletListRegex(s) ==
    LET t == SubSeq(s, LeadingRun(s, SpaceBytes) + 1, Len(s))
    IN  ByteAt(t, 1) \in {"-", "*", "+"} /\ IsSpace(ByteAt(t, 2))

\* ^\s*\d+\.\s+
numberListRegex(s) ==
    LET t      == SubSeq(s, LeadingRun(s, SpaceBytes) + 1, Len(s))
        digits == LeadingRun(t, {"0", "1", "2", "3", "4", "5", "6", "7", "8", "9"})
    IN  digits >= 1 /\ ByteAt(t, digits + 1) = "." /\ IsSpace(ByteAt(t, digits + 2))

\* three backquotes at the start or at the end
codeBlockRegex(s) ==
    \/ Len(s) >= 3 /\ \A i \in 1..3 : s[i] = BQ
    \/ Len(s) >= 3 /\ \A i \in (Len(s) - 2)..Len(s) : s[i] = BQ

\* a backquote, one or more other bytes, a backquote
inlineCodeRegex(s) ==
    \E i, j \in 1..Len(s) :
        /\ j >= i + 2
        /\ s[i] = BQ /\ s[j] = BQ
        /\ \A k \in (i + 1)..(j - 1) : s[k] # BQ

\* s[from..to] is [^*\s][^*]*[^*\s] or [^*\s]
emphasised(s, from, to) ==
    /\ from <= to
    /\ \A k \in from..to : s[k] # "*"
    /\ ~IsSpace(s[from]) /\ ~IsSpace(s[to])

\* two stars, emphasised text, two stars
boldRegex(s) ==
    \E i, j \in 1..Len(s) :
        /\ j >= i + 3 /\ j + 1 <= Len(s)
        /\ s[i] = "*" /\ s[i + 1] = "*" /\ s[j] = "*" /\ s[j + 1] = "*"
        /\ emphasised(s, i + 2, j - 1)

\* one star that follows no star, emphasised text, one star that no star follows
italicRegex(s) ==
    \E i, j \in 1..Len(s) :
        /\ j >= i + 2
        /\ s[i] = "*" /\ s[j] = "*"
        /\ ByteAt(s, i - 1) # "*" /\ ByteAt(s, j + 1) # "*"
        /\ emphasised(s, i + 1, j - 1)

\* ChunkFieldType: "H", "list", "code", "bold", "italic" or "body"; the six header
\* levels share one strategy and are one value here
detectPrimaryFieldType(chunk) ==
    LET trimmed == TrimSpace(chunk)
    IN  IF trimmed = <<>> THEN "body"
        ELSE IF headerRegex(trimmed) THEN "H"
        ELSE IF bulletListRegex(trimmed) THEN "list"
        ELSE IF numberListRegex(trimmed) THEN "list"
        ELSE IF codeBlockRegex(chunk) THEN "code"
        ELSE IF inlineCodeRegex(chunk) THEN "code"
        ELSE IF boldRegex(chunk) THEN "bold"
        ELSE IF italicRegex(chunk) THEN "italic"
        ELSE "body"

\* the BeforeRatio of each strategy, as a float64: 0.8, 0.2, 0.3, 0.65, 0.5
listBeforeRatio == Float64Quo(8, 10)

headerBeforeRatio == Float64Quo(2, 10)

codeBeforeRatio == Float64Quo(3, 10)

boldBeforeRatio == Float64Quo(65, 100)

balancedBeforeRatio == Float64Quo(1, 2)

getContextStrategy(fieldType) ==
    IF fieldType = "list" THEN [BeforeRatio |-> listBeforeRatio, Name |-> "list-preceding"]
    ELSE IF fieldType = "H" THEN [BeforeRatio |-> headerBeforeRatio, Name |-> "header-following"]
    ELSE IF fieldType = "code" THEN [BeforeRatio |-> codeBeforeRatio, Name |-> "code-following"]
    ELSE IF fieldType = "bold" THEN [BeforeRatio |-> boldBeforeRatio, Name |-> "emphasis-preceding"]
    ELSE [BeforeRatio |-> balancedBeforeRatio, Name |-> "balanced"]

\* the number a limb sequence stands for
RECURSIVE LimbsValue(_)
LimbsValue(a) == IF a = <<>> THEN 0 ELSE Head(a) + limbBase * LimbsValue(Tail(a))

\* int(x) of a non-negative float64
Float64ToInt(x) ==
    IF x.e >= 0 THEN LimbsValue(ShlLimbs(x.n, x.e))
    ELSE LimbsValue(ShrLimbs(x.n, 0 - x.e).q)

\* int(float64(availableContextUnits) * strategy.BeforeRatio)
beforeBudgetOf(available, ratio) == Float64ToInt(Float64Mul(Float64(available), ratio))

\* a mutation of afterBudgetOf: the whole available budget
afterBudgetWhole(available, before) == available

\* availableContextUnits - beforeBudget
afterBudgetOf(available, before) == available - before

RECURSIVE Reversed(_)
Reversed(s) == IF s = <<>> THEN <<>> ELSE Append(Reversed(Tail(s)), Head(s))

\* the loop of collectContextChunks from index i on
RECURSIVE collectLoop(_, _, _, _, _, _, _)
collectLoop(name, all, i, direction, budget, units, acc) ==
    IF i < 0 \/ i >= Len(all) \/ budget <= 0 THEN [chunks |-> acc, units |-> units]
    ELSE LET chunk      == all[i + 1]
             chunkUnits == Count(name, chunk)
             partial    == calculatorCreatePartialChunk(name, chunk, budget)
         IN  IF units + chunkUnits <= budget
             THEN collectLoop(name, all, i + direction, direction, budget - chunkUnits,
                              units + chunkUnits,
                              Append(acc, [Text |-> chunk, Index |-> i, Score |-> 0]))
             ELSE IF partial # <<>>
             THEN [chunks |-> Append(acc, [Text |-> partial, Index |-> i, Score |-> 0]),
                   units  |-> units + Count(name, partial)]
             ELSE [chunks |-> acc, units |-> units]

collectContextChunks(name, all, startIndex, direction, budget) ==
    LET found == collectLoop(name, all, startIndex, direction, budget, 0, <<>>)
    IN  [chunks |-> IF direction < 0 THEN Reversed(found.chunks) ELSE found.chunks,
         units  |-> found.units]

CalculateSmartContextWithBudget(name, request, budget) ==
    LET fieldType     == detectPrimaryFieldType(request.TargetChunk.Text)
        contextStrategy == getContextStrategy(fieldType)
        targetUnits   == Count(name, request.TargetChunk.Text)
        available     == budget - targetUnits
        truncatedText == calculatorCreatePartialChunk(name, request.TargetChunk.Text, budget)
        beforeBudget  == beforeBudgetOf(available, contextStrategy.BeforeRatio)
        afterBudget   == afterBudgetOf(available, beforeBudget)
        none          == [chunks |-> <<>>, units |-> 0]
        before        == IF beforeBudget > 0
                         THEN collectContextChunks(name, request.AllChunks,
                                                   request.TargetChunk.Index - 1, -1,
                                                   beforeBudget)
                         ELSE none
        after         == IF afterBudget > 0
                         THEN collectContextChunks(name, request.AllChunks,
                                                   request.TargetChunk.Index + 1, 1,
                                                   afterBudget)
                         ELSE none
    IN  IF available <= 0 /\ targetUnits > budget
        THEN [SelectedChunks |-> <<[Text  |-> truncatedText,
                                    Index |-> request.TargetChunk.Index,
                                    Score |-> request.TargetChunk.Score]>>,
              TotalUnits     |-> Count(name, truncatedText),
              Strategy       |-> contextStrategy.Name,
              FieldType      |-> fieldType]
        ELSE IF available <= 0
        THEN [SelectedChunks |-> <<request.TargetChunk>>,
              TotalUnits     |-> targetUnits,
              Strategy       |-> contextStrategy.Name,
              FieldType      |-> fieldType]
        ELSE [SelectedChunks |-> <<request.TargetChunk>> \o before.chunks \o after.chunks,
              TotalUnits     |-> targetUnits + before.units + after.units,
              Strategy       |-> contextStrategy.Name,
              FieldType      |-> fieldType]

MaxContextChunks == 3

MaxBudget == 6

\* chunks of each field type, of one to three words
ContextTexts ==
    {<<"a">>, <<"a", SP, "a", SP, "a">>, <<"#", SP, "a">>, <<"-", SP, "a", SP, "a">>,
     <<"1", ".", SP, "a">>, <<BQ, "a", BQ>>, <<"*", "*", "a", "*", "*">>,
     <<"*", "a", "*">>}

\* a search result of a chunk list: the target is one of the chunks
ContextRequests ==
    {[TargetChunk |-> [Text |-> all[i], Index |-> i - 1, Score |-> 1], AllChunks |-> all] :
        <<all, i>> \in {p \in SeqsUpTo(ContextTexts, MaxContextChunks) \X (1..MaxContextChunks) :
                          p[2] <= Len(p[1])}}

InitCalc ==
    /\ IdleSplit
    /\ IdleSelect
    /\ IdlePartial
    /\ IdleRun
    /\ IdleSearch
    /\ IdleClassify
    /\ IdleScore
    /\ IdleMore
    /\ calcCounter \in {"words", "characters"}
    /\ req \in ContextRequests
    /\ budgetUnits \in 0..MaxBudget
    /\ contextResult = <<>>
    /\ calcPc = "idle"

CalcUnchanged ==
    UNCHANGED <<calcCounter, req, budgetUnits, splitVars, selectorVars, callVars,
                partialVars, runVars, searchVars, classifyVars, scoreVars, moreVars>>

\* the target chunk alone is over the budget: it is truncated
CalculateTruncatedTarget ==
    /\ calcPc = "idle"
    /\ Count(calcCounter, req.TargetChunk.Text) > budgetUnits
    /\ contextResult' = CalculateSmartContextWithBudget(calcCounter, req, budgetUnits)
    /\ calcPc' = "done"
    /\ CalcUnchanged

\* the target chunk takes the whole budget
CalculateTargetOnly ==
    /\ calcPc = "idle"
    /\ Count(calcCounter, req.TargetChunk.Text) = budgetUnits
    /\ contextResult' = CalculateSmartContextWithBudget(calcCounter, req, budgetUnits)
    /\ calcPc' = "done"
    /\ CalcUnchanged

\* budget is left for context before and after the target
CalculateWithContext ==
    /\ calcPc = "idle"
    /\ Count(calcCounter, req.TargetChunk.Text) < budgetUnits
    /\ contextResult' = CalculateSmartContextWithBudget(calcCounter, req, budgetUnits)
    /\ calcPc' = "done"
    /\ CalcUnchanged

NextCalc == CalculateTruncatedTarget \/ CalculateTargetOnly \/ CalculateWithContext

SpecCalc == InitCalc /\ [][NextCalc]_vars

CalcReturned == calcPc = "done"

(***************************************************************************)
(* C20: with the words counter and a budget >= 1,                          *)
(* CalculateSmartContextWithBudget returns a result whose SelectedChunks   *)
(* contain the target chunk's index (whole or truncated) and whose         *)
(* TotalUnits is at most the budget.                                       *)
(***************************************************************************)
C20_TargetIncludedWithinBudget ==
    (CalcReturned /\ calcCounter = "words" /\ budgetUnits >= 1) =>
        /\ \E k \in 1..Len(contextResult.SelectedChunks) :
               contextResult.SelectedChunks[k].Index = req.TargetChunk.Index
        /\ contextResult.TotalUnits <= budgetUnits
        /\ TotalUnits("words", [k \in 1..Len(contextResult.SelectedChunks) |->
                                   contextResult.SelectedChunks[k].Text]) <= budgetUnits

\* a target with context on both sides, the following chunk truncated, that
\* uses the whole budget
C20_Witness ==
    /\ CalcReturned /\ calcCounter = "words" /\ budgetUnits >= 1
    /\ contextResult.TotalUnits = budgetUnits
    /\ \E k \in 1..Len(contextResult.SelectedChunks) :
           contextResult.SelectedChunks[k].Index < req.TargetChunk.Index
    /\ \E k \in 1..Len(contextResult.SelectedChunks) :
           /\ contextResult.SelectedChunks[k].Index > req.TargetChunk.Index
           /\ contextResult.SelectedChunks[k].Text
                  # req.AllChunks[contextResult.SelectedChunks[k].Index + 1]

(***************************************************************************)
(* formatSelectedChunks on its own (chunk_selection.go), one iteration of  *)
(* its loop at a time, for selections whose texts end in newlines, are     *)
(* blank, overlap, or are sentences around the 40-byte mark.               *)
(***************************************************************************)
\* the variable groups of the specifications above
settledVars == <<splitVars, selectorVars, callVars, partialVars, runVars, searchVars,
                 classifyVars, scoreVars, calcVars>>

IdleSettled ==
    /\ IdleSplit /\ IdleSelect /\ IdlePartial /\ IdleRun
    /\ IdleSearch /\ IdleClassify /\ IdleScore /\ IdleCalc

\* a sentence of substantialLength + 1 bytes, as many characters
LongSentence == [i \in 1..(substantialLength + 1) |-> IF i > substantialLength THEN "." ELSE "a"]

\* a sentence of substantialLength bytes
FortyByteSentence == [i \in 1..substantialLength |-> IF i = substantialLength THEN "?" ELSE "a"]

\* a sentence of substantialLength + 1 bytes and 21 characters
AccentedSentence ==
    [i \in 1..(substantialLength + 1) |->
        IF i > substantialLength THEN "." ELSE IF i % 2 = 1 THEN LEAD ELSE CONT]

FormatTexts ==
    {<<"a">>, <<"b">>, <<"a", SP, "b">>, <<>>, <<NL>>, <<"a", NL>>, <<"a", NL, NL>>,
     LongSentence, FortyByteSentence, AccentedSentence}

MaxFormatChunks == 3

MaxFormatIndex == 3

\* selections: distinct indices in any order, any texts
FormatSelections ==
    {sel \in UNION {[1..n -> [Text : FormatTexts, Index : 0..MaxFormatIndex, Score : {0}]] :
                      n \in 0..MaxFormatChunks} :
        \A i, j \in 1..Len(sel) : i # j => sel[i].Index # sel[j].Index}

InitFormat ==
    /\ IdleSettled
    /\ IdleOverlap
    /\ IdleLater
    /\ fmtSelected \in FormatSelections
    /\ fmtSearchMode \in BOOLEAN
    /\ fmtI = 0
    /\ fmtResult = <<>>
    /\ fmtSeparated = FALSE
    /\ fmtSeparator = <<>>
    /\ fmtChunkText = <<>>
    /\ fmtIndices = <<>>
    /\ fmtPc = "idle"

\* nothing selected: the empty string
FormatEmpty ==
    /\ fmtPc = "idle"
    /\ Len(fmtSelected) = 0
    /\ fmtPc' = "done"
    /\ UNCHANGED <<fmtSelected, fmtSearchMode, fmtI, fmtResult, fmtSeparated, fmtSeparator,
                   fmtChunkText, fmtIndices, settledVars, overlapVars, laterVars>>

\* sort by document order
FormatSort ==
    /\ fmtPc = "idle"
    /\ Len(fmtSelected) > 0
    /\ fmtSelected' = sortByIndex(fmtSelected)
    /\ fmtPc' = "loop"
    /\ UNCHANGED <<fmtSearchMode, fmtI, fmtResult, fmtSeparated, fmtSeparator,
                   fmtChunkText, fmtIndices, settledVars, overlapVars, laterVars>>

\* one iteration of the loop, for selected[fmtI]
FormatChunk ==
    /\ fmtPc = "loop"
    /\ fmtI < Len(fmtSelected)
    /\ LET chunk     == fmtSelected[fmtI + 1]
           chunkText == IF fmtI > 0
                        THEN removeOverlapPrefix(chunk.Text, fmtSelected[fmtI].Text)
                        ELSE chunk.Text
           written   == TrimSpace(chunkText) # <<>>
           separated == fmtI > 0 /\ written
           separator == IF ~separated THEN <<>>
                        ELSE IF fmtSearchMode /\ chunk.Index # fmtSelected[fmtI].Index + 1
                        THEN gapIndicator
                        ELSE determineSeparator(fmtSelected[fmtI].Text, chunkText)
       IN  /\ fmtResult' = fmtResult \o separator \o (IF written THEN chunkText ELSE <<>>)
           /\ fmtSeparated' = separated
           /\ fmtSeparator' = separator
           /\ fmtChunkText' = chunkText
           /\ fmtIndices' = IF written THEN Append(fmtIndices, chunk.Index) ELSE fmtIndices
    /\ fmtI' = fmtI + 1
    /\ UNCHANGED <<fmtSelected, fmtSearchMode, fmtPc, settledVars, overlapVars, laterVars>>

\* the loop is over: result.String()
FormatReturn ==
    /\ fmtPc = "loop"
    /\ fmtI >= Len(fmtSelected)
    /\ fmtPc' = "done"
    /\ UNCHANGED <<fmtSelected, fmtSearchMode, fmtI, fmtResult, fmtSeparated, fmtSeparator,
                   fmtChunkText, fmtIndices, settledVars, overlapVars, laterVars>>

NextFormat == FormatEmpty \/ FormatSort \/ FormatChunk \/ FormatReturn

SpecFormat == InitFormat /\ [][NextFormat]_vars

\* the last iteration wrote a separator and then a chunk
SeparatorWritten == fmtPc = "loop" /\ fmtI >= 2 /\ fmtSeparated

\* the marker branch was taken in the last iteration
MarkerApplies ==
    fmtSearchMode /\ fmtSelected[fmtI].Index # fmtSelected[fmtI - 1].Index + 1

\* the separator after a preceding chunk, as a function of its text alone,
\* with lengths in characters
SeparatorAfter(prev) ==
    LET trimmed == TrimSpace(prev)
    IN  IF HasSuffix(prev, <<NL, NL>>) THEN <<NL, NL>>
        ELSE IF HasSuffix(prev, <<NL>>) THEN <<NL>>
        ELSE IF /\ trimmed # <<>>
                /\ trimmed[Len(trimmed)] \in {".", "!", "?"}
                /\ RuneCountInString(trimmed) > 40
        THEN <<NL, NL>>
        ELSE <<NL>>

(***************************************************************************)
(* C21: the separator written before a non-empty chunk, when no            *)
(* discontinuity marker applies, depends only on the preceding chunk's     *)
(* text: two newlines if it ends with two newlines; else one newline if it *)
(* ends with one; else two newlines if its trimmed text ends in '.', '!'   *)
(* or '?' and is longer than 40 characters; else one newline.              *)
(***************************************************************************)
C21_SeparatorFromPrecedingText ==
    (SeparatorWritten /\ ~MarkerApplies)
        => fmtSeparator = SeparatorAfter(fmtSelected[fmtI - 1].Text)

(***************************************************************************)
(* C22: in search mode, between two chunks joined consecutively in the     *)
(* output the marker "\n\n---\n\n" is written if and only if their         *)
(* original indices are not adjacent, also when a chunk selected between   *)
(* them was rendered empty; outside search mode it is never written.       *)
(***************************************************************************)
C22_MarkerIffIndicesNotAdjacent ==
    SeparatorWritten =>
        /\ ~fmtSearchMode => fmtSeparator # gapIndicator
        /\ (fmtSearchMode /\ Len(fmtIndices) >= 2) =>
               (fmtSeparator = gapIndicator
                   <=> fmtIndices[Len(fmtIndices)]
                           # fmtIndices[Len(fmtIndices) - 1] + 1)

(***************************************************************************)
(* removeOverlapPrefix on its own (chunk_selection.go).                    *)
(***************************************************************************)
MaxOverlapWords == 3

OverlapWords == {<<"a">>, <<"b">>}

\* n times the word "a", with single spaces
RepeatedWord(n) == [i \in 1..(2 * n - 1) |-> IF i % 2 = 1 THEN "a" ELSE SP]

\* texts of a few words, joined by spaces or by newlines, some with a leading
\* space, and texts of as many and of more words than the lookback
OverlapTexts ==
    LET short == {Join(ws, sep) : ws \in SeqsUpTo(OverlapWords, MaxOverlapWords),
                                  sep \in {<<SP>>, <<NL>>, <<SP, SP>>}}
    IN  short \cup {<<SP>> \o t : t \in short}
              \cup {RepeatedWord(n) : n \in overlapLookback..(overlapLookback + 1)}
              \cup {<<"b", SP>> \o RepeatedWord(overlapLookback)}

InitOverlap ==
    /\ IdleSettled
    /\ IdleFormat
    /\ IdleLater
    /\ overlapCurrent \in OverlapTexts
    /\ overlapPrevious \in OverlapTexts
    /\ overlapResult = <<>>
    /\ overlapPc = "idle"

\* the longest i <= maxCheck that the loop of removeOverlapPrefix finds, or 0
foundOverlap(currentChunk, previousChunk) ==
    LET currentWords  == Fields(currentChunk)
        previousWords == Fields(previousChunk)
        maxCheck      == Min(Min(Len(currentWords), Len(previousWords)), overlapLookback)
        overlaps      == {i \in 1..maxCheck :
                            SubSeq(previousWords, Len(previousWords) - i + 1, Len(previousWords))
                            = SubSeq(currentWords, 1, i)}
    IN  IF overlaps = {} THEN 0 ELSE MaxOf(overlaps)

OverlapUnchanged ==
    UNCHANGED <<overlapCurrent, overlapPrevious, settledVars, formatVars, laterVars>>

\* a text without words: the current chunk is returned
RemoveOverlapNoWords ==
    /\ overlapPc = "idle"
    /\ Len(Fields(overlapCurrent)) = 0 \/ Len(Fields(overlapPrevious)) = 0
    /\ overlapResult' = removeOverlapPrefix(overlapCurrent, overlapPrevious)
    /\ overlapPc' = "done"
    /\ OverlapUnchanged

\* the loop ends without a match
RemoveOverlapNotFound ==
    /\ overlapPc = "idle"
    /\ Len(Fields(overlapCurrent)) > 0 /\ Len(Fields(overlapPrevious)) > 0
    /\ foundOverlap(overlapCurrent, overlapPrevious) = 0
    /\ overlapResult' = removeOverlapPrefix(overlapCurrent, overlapPrevious)
    /\ overlapPc' = "done"
    /\ OverlapUnchanged

\* the loop returns at a match
RemoveOverlapFound ==
    /\ overlapPc = "idle"
    /\ Len(Fields(overlapCurrent)) > 0 /\ Len(Fields(overlapPrevious)) > 0
    /\ foundOverlap(overlapCurrent, overlapPrevious) > 0
    /\ overlapResult' = removeOverlapPrefix(overlapCurrent, overlapPrevious)
    /\ overlapPc' = "done"
    /\ OverlapUnchanged

NextOverlap == RemoveOverlapNoWords \/ RemoveOverlapNotFound \/ RemoveOverlapFound

SpecOverlap == InitOverlap /\ [][NextOverlap]_vars

OverlapReturned == overlapPc = "done"

\* the k, 1 <= k <= min(15, words(current), words(previous)), for which the
\* first k words of current are the last k words of previous
SharedRuns ==
    LET cw == Fields(overlapCurrent)
        pw == Fields(overlapPrevious)
    IN  {k \in 1..15 : /\ k <= Len(cw) /\ k <= Len(pw)
                       /\ \A j \in 1..k : cw[j] = pw[Len(pw) - k + j]}

(***************************************************************************)
(* C23: removeOverlapPrefix(current, previous) removes from current the    *)
(* longest run of k leading words, 1 <= k <= min(15, words(current),       *)
(* words(previous)), that equals the last k words of previous, and returns *)
(* current unchanged when there is no such k or a text has no words.       *)
(***************************************************************************)
C23_LongestSharedRunRemoved ==
    OverlapReturned =>
        IF SharedRuns = {} THEN overlapResult = overlapCurrent
        ELSE Fields(overlapResult)
                 = SubSeq(Fields(overlapCurrent), MaxOf(SharedRuns) + 1,
                          Len(Fields(overlapCurrent)))

\* two shared runs of different lengths, the longer one removed and words left
C23_Witness ==
    /\ OverlapReturned
    /\ Cardinality(SharedRuns) >= 2
    /\ overlapResult # <<>>
    /\ overlapResult # overlapCurrent

\* sixteen shared words: fifteen are removed
C23_WitnessLookback ==
    /\ OverlapReturned
    /\ Len(Fields(overlapCurrent)) > 15
    /\ Cardinality(SharedRuns) = 15
    /\ Len(Fields(overlapResult)) = 1

(***************************************************************************)
(* Fixed-count selection: the indices selected by selectWithFixedContext   *)
(***************************************************************************)

\* a call of selectWithFixedContext is under way or has returned
Selecting == selPc \in {"select", "format", "done"} /\ call # "none"

\* the ordered chunks whose candidates the loops have gone through
ProcessedTargets ==
    IF maxUnits > 0 THEN {orderedChunks[k].Index : k \in 1..(pos - 1)}
    ELSE IF selPc = "select" THEN {}
    ELSE IF isSearchMode THEN IndicesOf(relevantChunks(orderedChunks))
    ELSE IndicesOf(orderedChunks)

InWindowOf(i, t) == t - contextBefore <= i /\ i <= t + contextAfter

(***************************************************************************)
(* C24: in fixed-count selection, for any ordered targets and any          *)
(* contextBefore, contextAfter >= 0, no original index is selected twice,  *)
(* every selected index is in 0..len(allChunks)-1 and lies within          *)
(* [t - contextBefore, t + contextAfter] of a processed target t.          *)
(***************************************************************************)
C24_SelectedIndicesDistinctInWindow ==
    Selecting =>
        /\ \A i, j \in 1..Len(selectedChunks) :
              i # j => selectedChunks[i].Index # selectedChunks[j].Index
        /\ \A i \in 1..Len(selectedChunks) :
              /\ selectedChunks[i].Index \in 0..(Len(allChunks) - 1)
              /\ \E t \in ProcessedTargets : InWindowOf(selectedChunks[i].Index, t)

\* a context neighbour shared by the windows of two processed targets, and a
\* window that reaches over the end of the document
C24_Witness ==
    /\ SelectReturned
    /\ call = "search"
    /\ contextBefore > 0 /\ contextAfter > 0
    /\ \E i \in 1..Len(selectedChunks) :
          /\ selectedChunks[i].Index \notin ProcessedTargets
          /\ \E t, u \in ProcessedTargets :
                /\ t # u
                /\ InWindowOf(selectedChunks[i].Index, t)
                /\ InWindowOf(selectedChunks[i].Index, u)
    /\ \E t \in ProcessedTargets : t + contextAfter >= Len(allChunks)

(***************************************************************************)
(* collectContextChunks on its own (context_calculator.go): the walk from  *)
(* a start index in one direction under a budget, as                       *)
(* CalculateSmartContextWithBudget calls it for the chunks before and      *)
(* after the target.                                                       *)
(***************************************************************************)
MaxCollectChunks == 3

\* chunks of one, two and three words
CollectTexts == {<<"a">>, <<"#", SP, "a">>, <<"a", SP, "a", SP, "a">>}

InitCollect ==
    /\ IdleSettled
    /\ IdleFormat
    /\ IdleOverlap
    /\ IdleSmart
    /\ IdleMerge
    /\ collectCounter \in {"words", "characters"}
    /\ collectAll \in SeqsUpTo(CollectTexts, MaxCollectChunks)
    /\ collectStart \in (-1)..Len(collectAll)
    /\ collectDirection \in {-1, 1}
    /\ collectBudget \in 1..MaxBudget
    /\ collectChunks = <<>>
    /\ collectUnits = 0
    /\ collectPc = "idle"

CollectUnchanged ==
    UNCHANGED <<collectCounter, collectAll, collectStart, collectDirection, collectBudget,
                settledVars, formatVars, overlapVars, smartVars, mergeVars>>

\* the chunks before the target: collected backwards, returned reversed
CollectPreceding ==
    /\ collectPc = "idle"
    /\ collectDirection < 0
    /\ LET r == collectContextChunks(collectCounter, collectAll, collectStart,
                                     collectDirection, collectBudget)
       IN  collectChunks' = r.chunks /\ collectUnits' = r.units
    /\ collectPc' = "done"
    /\ CollectUnchanged

\* the chunks after the target
CollectFollowing ==
    /\ collectPc = "idle"
    /\ ~(collectDirection < 0)
    /\ LET r == collectContextChunks(collectCounter, collectAll, collectStart,
                                     collectDirection, collectBudget)
       IN  collectChunks' = r.chunks /\ collectUnits' = r.units
    /\ collectPc' = "done"
    /\ CollectUnchanged

NextCollect == CollectPreceding \/ CollectFollowing

SpecCollect == InitCollect /\ [][NextCollect]_vars

CollectReturned == collectPc = "done"

\* the indices the walk visits, in the order of the walk
RECURSIVE WalkFrom(_)
WalkFrom(i) ==
    IF i < 0 \/ i >= Len(collectAll) THEN <<>>
    ELSE <<i>> \o WalkFrom(i + collectDirection)

Walk == WalkFrom(collectStart)

\* the units of the first k chunks of the walk
CollectedBefore(k) ==
    TotalUnits(collectCounter, [j \in 1..(k - 1) |-> collectAll[Walk[j] + 1]])

CollectedAt(i) == {k \in 1..Len(collectChunks) : collectChunks[k].Index = i}

(***************************************************************************)
(* C25: collecting in one direction under a budget B, a chunk is included  *)
(* whole whenever the units collected so far in that direction plus its    *)
(* own are at most B; only the first chunk that would exceed B is          *)
(* truncated, to exactly B minus the units collected, and the walk stops   *)
(* there.                                                                  *)
(***************************************************************************)
C25_WholeWhileWithinBudget ==
    CollectReturned =>
        \A k \in 1..Len(Walk) :
            LET i      == Walk[k]
                before == CollectedBefore(k)
                own    == Count(collectCounter, collectAll[i + 1])
            IN  /\ before + own <= collectBudget =>
                      \E n \in CollectedAt(i) : collectChunks[n].Text = collectAll[i + 1]
                /\ (before <= collectBudget /\ before + own > collectBudget) =>
                      /\ \A n \in CollectedAt(i) :
                            Count(collectCounter, collectChunks[n].Text)
                                = collectBudget - before
                      /\ \A m \in (k + 1)..Len(Walk) : CollectedAt(Walk[m]) = {}

(***************************************************************************)
(* selectWithSmartContext (chunk_selection.go): the search path of         *)
(* SelectWithContextConfig when smart context is on, one search result,    *)
(* and one chunk of its context result, at a time.                         *)
(***************************************************************************)
MaxSmartChunks == 3

\* a chunk without words, a plain word, a header and a list item
SmartTexts == {<<NL>>, <<"a">>, <<"#", SP, "a">>, <<"-", SP, "a", SP, "a">>}

\* the body of the inner loop for a chunk that is not in addedIndices
addSmartChunk(chunk, sel, cur, added, name, limit) ==
    LET chunkUnits     == Count(name, chunk.Text)
        remainingUnits == limit - cur
        partial        == createPartialChunk(name, chunk.Text, remainingUnits)
    IN  IF cur + chunkUnits <= limit
        THEN [sel   |-> Append(sel, chunk),
              cur   |-> cur + chunkUnits,
              added |-> added \cup {chunk.Index},
              stop  |-> FALSE]
        ELSE IF remainingUnits > 0 /\ partial # <<>>
        THEN [sel   |-> Append(sel, ChunkWithIndex(partial, chunk.Index, 0)),
              cur   |-> limit,
              added |-> added,
              stop  |-> TRUE]
        ELSE [sel |-> sel, cur |-> cur, added |-> added, stop |-> TRUE]

InitSmart ==
    /\ IdleSplit
    /\ IdlePartial
    /\ IdleRun
    /\ IdleRest
    /\ counterName \in {"words", "characters"}
    /\ maxUnits = 0
    /\ strategy = "Beginning"
    /\ isSearchMode = TRUE
    /\ selPc = "idle"
    /\ NoCall

SmartUnchanged ==
    UNCHANGED <<selectorVars, splitVars, partialVars, runVars, searchVars, classifyVars,
                scoreVars, calcVars, formatVars, overlapVars, collectVars, mergeVars>>

\* SelectWithContextConfig with useSmartContext, contextUnits > 0 and search
\* mode, up to the loop of selectWithSmartContext
SelectWithContextConfig ==
    /\ selPc = "idle"
    /\ \E chunks \in SeqsUpTo(SmartTexts, MaxSmartChunks), units \in 1..MaxBudget :
          \E p \in RankOrders(Len(chunks)) :
             /\ allChunks' = chunks
             /\ orderedChunks' = [r \in 1..Len(chunks) |->
                                     ChunkWithIndex(chunks[p[r] + 1], p[r], 2)]
             /\ contextUnits' = units
    /\ call' = "search"
    /\ selPc' = "select"
    /\ UNCHANGED <<contextBefore, contextAfter, selectedChunks, currentUnits, addedIndices,
                   pos, output, rendered, remainingBudget, resultChunks>>
    /\ SmartUnchanged

\* the search result was already added as context of an earlier one
SmartSkipResult ==
    /\ selPc = "select"
    /\ Len(orderedChunks) > 0
    /\ orderedChunks[pos].Index \in addedIndices
    /\ pos' = pos + 1
    /\ selPc' = IF pos = Len(orderedChunks) THEN "format" ELSE "select"
    /\ UNCHANGED <<allChunks, orderedChunks, contextBefore, contextAfter, selectedChunks,
                   currentUnits, addedIndices, output, rendered, call, smartVars>>
    /\ SmartUnchanged

\* SmartCalculate with the whole of contextUnits handed to the calculator
SmartCalculateWholeBudget ==
    /\ selPc = "select"
    /\ Len(orderedChunks) > 0
    /\ orderedChunks[pos].Index \notin addedIndices
    /\ contextUnits - currentUnits > 0
    /\ remainingBudget' = contextUnits
    /\ resultChunks' = CalculateSmartContextWithBudget(
                           counterName,
                           [TargetChunk |-> orderedChunks[pos], AllChunks |-> allChunks],
                           remainingBudget').SelectedChunks
    /\ selPc' = "add"
    /\ UNCHANGED <<allChunks, orderedChunks, contextBefore, contextAfter, selectedChunks,
                   currentUnits, addedIndices, pos, output, rendered, call, contextUnits>>
    /\ SmartUnchanged

\* the context of one search result is calculated under the remaining budget
SmartCalculate ==
    /\ selPc = "select"
    /\ Len(orderedChunks) > 0
    /\ orderedChunks[pos].Index \notin addedIndices
    /\ contextUnits - currentUnits > 0
    /\ remainingBudget' = contextUnits - currentUnits
    /\ resultChunks' = CalculateSmartContextWithBudget(
                           counterName,
                           [TargetChunk |-> orderedChunks[pos], AllChunks |-> allChunks],
                           remainingBudget').SelectedChunks
    /\ selPc' = "add"
    /\ UNCHANGED <<allChunks, orderedChunks, contextBefore, contextAfter, selectedChunks,
                   currentUnits, addedIndices, pos, output, rendered, call, contextUnits>>
    /\ SmartUnchanged

\* the inner loop passes over a chunk that is in addedIndices
SmartSkipChunk ==
    /\ selPc = "add"
    /\ resultChunks # <<>>
    /\ Head(resultChunks).Index \in addedIndices
    /\ resultChunks' = Tail(resultChunks)
    /\ UNCHANGED <<callVars, contextUnits, remainingBudget>>
    /\ SmartUnchanged

\* the inner loop adds a chunk, whole or truncated, or breaks
SmartAddChunk ==
    /\ selPc = "add"
    /\ resultChunks # <<>>
    /\ Head(resultChunks).Index \notin addedIndices
    /\ LET r == addSmartChunk(Head(resultChunks), selectedChunks, currentUnits,
                              addedIndices, counterName, contextUnits)
       IN  /\ selectedChunks' = r.sel
           /\ currentUnits' = r.cur
           /\ addedIndices' = r.added
           /\ resultChunks' = IF r.stop THEN <<>> ELSE Tail(resultChunks)
    /\ UNCHANGED <<allChunks, orderedChunks, contextBefore, contextAfter, pos, selPc,
                   output, rendered, call, contextUnits, remainingBudget>>
    /\ SmartUnchanged

\* the end of one iteration of the outer loop
SmartNextResult ==
    /\ selPc = "add"
    /\ resultChunks = <<>>
    /\ pos' = pos + 1
    /\ selPc' = IF currentUnits >= contextUnits \/ pos = Len(orderedChunks)
                THEN "format"
                ELSE "select"
    /\ UNCHANGED <<allChunks, orderedChunks, contextBefore, contextAfter, selectedChunks,
                   currentUnits, addedIndices, output, rendered, call, smartVars>>
    /\ SmartUnchanged

\* the caller drops the result and the locals of the call are gone
SmartReturn ==
    /\ selPc = "done"
    /\ selPc' = "idle"
    /\ allChunks' = <<>>
    /\ orderedChunks' = <<>>
    /\ selectedChunks' = <<>>
    /\ currentUnits' = 0
    /\ addedIndices' = {}
    /\ pos' = 1
    /\ output' = <<>>
    /\ rendered' = <<>>
    /\ call' = "none"
    /\ contextUnits' = 0
    /\ remainingBudget' = 0
    /\ resultChunks' = <<>>
    /\ UNCHANGED <<contextBefore, contextAfter>>
    /\ SmartUnchanged

NextSmart ==
    \/ SelectWithContextConfig
    \/ SelectEmpty
    \/ SmartSkipResult
    \/ SmartCalculate
    \/ SmartSkipChunk
    \/ SmartAddChunk
    \/ SmartNextResult
    \/ Format
    \/ SmartReturn

SpecSmart == InitSmart /\ [][NextSmart]_vars

\* selectWithSmartContext is in its loops
InSmartLoop == selPc \in {"select", "add"}

\* a step in which the calculator is called for a search result
CalculatorCalled == selPc = "select" /\ selPc' = "add"

(***************************************************************************)
(* C26: smart-context selection keeps one running total: in every          *)
(* reachable state 0 <= currentUnits <= contextUnits, each matched result  *)
(* is given the budget contextUnits - currentUnits, and no chunk is added  *)
(* once currentUnits >= contextUnits.                                      *)
(***************************************************************************)
C26_RunningTotalWithinContextUnits ==
    /\ [](0 <= currentUnits /\ currentUnits <= contextUnits)
    /\ [][CalculatorCalled => remainingBudget' = contextUnits - currentUnits]_vars
    /\ [][(InSmartLoop /\ currentUnits >= contextUnits) =>
              selectedChunks' = selectedChunks]_vars

\* the second search result is given what the first left, the budget is
\* used up and a chunk already added is passed over
C26_Witness ==
    /\ selPc = "format"
    /\ call = "search"
    /\ pos > 2
    /\ 0 < remainingBudget /\ remainingBudget < contextUnits
    /\ currentUnits = contextUnits
    /\ Len(selectedChunks) >= 2

(***************************************************************************)
(* mergeShortSegments on its own (chunk.go), one iteration of its loop at  *)
(* a time, as packSegments calls it in the waves other than the word wave. *)
(* The segments drawn have no space, so that a segment of the result holds *)
(* a space exactly when it was produced by a merge.                        *)
(***************************************************************************)
MaxMergeSegments == 4

MaxMergeSize == 7

\* segments of one to four bytes
MergeTexts == {<<"a">>, <<"b", ".">>, <<"c", "d", ".">>, <<"e", "f", "g", ".">>}

\* the small sizes, and one whose quarter is above the floor of 3
MergeSizes == (1..MaxMergeSize) \cup {4 * MaxMergeSize}

InitMerge ==
    /\ IdleSettled
    /\ IdleFormat
    /\ IdleOverlap
    /\ IdleCollect
    /\ IdleSmart
    /\ mergeSegments \in SeqsUpTo(MergeTexts, MaxMergeSegments)
    /\ mergeMaxChunkSize \in MergeSizes
    /\ mergeMinChunkSize = calculateMinimumChunkSize(mergeMaxChunkSize)
    /\ mergeI = 0
    /\ mergeResult = <<>>
    /\ mergePc = "idle"

MergeUnchanged ==
    UNCHANGED <<mergeMaxChunkSize, mergeMinChunkSize, settledVars, formatVars, overlapVars,
                collectVars, smartVars>>

currentSegment == mergeSegments[mergeI + 1]

\* currentSegment + " " + nextSegment
combinedWithNext == currentSegment \o <<SP>> \o mergeSegments[mergeI + 2]

\* lastResult + " " + currentSegment
combinedWithPrevious == mergeResult[Len(mergeResult)] \o <<SP>> \o currentSegment

MergesWithNext ==
    /\ mergeI + 1 < Len(mergeSegments)
    /\ Len(combinedWithNext) <= mergeMaxChunkSize

MergesWithPrevious ==
    /\ Len(mergeResult) > 0
    /\ Len(combinedWithPrevious) <= mergeMaxChunkSize

\* at most one segment: returned as it is
MergeNothing ==
    /\ mergePc = "idle"
    /\ Len(mergeSegments) <= 1
    /\ mergeResult' = mergeSegments
    /\ mergePc' = "done"
    /\ UNCHANGED <<mergeSegments, mergeI>>
    /\ MergeUnchanged

MergeEnter ==
    /\ mergePc = "idle"
    /\ Len(mergeSegments) > 1
    /\ mergePc' = "loop"
    /\ UNCHANGED <<mergeSegments, mergeI, mergeResult>>
    /\ MergeUnchanged

\* the current segment is long enough
MergeKeepLong ==
    /\ mergePc = "loop"
    /\ mergeI < Len(mergeSegments)
    /\ Len(currentSegment) >= mergeMinChunkSize
    /\ mergeResult' = Append(mergeResult, currentSegment)
    /\ mergeI' = mergeI + 1
    /\ UNCHANGED <<mergeSegments, mergePc>>
    /\ MergeUnchanged

\* MergeWithNext without the test of the combined length
MergeWithNextAnyLength ==
    /\ mergePc = "loop"
    /\ mergeI < Len(mergeSegments)
    /\ Len(currentSegment) < mergeMinChunkSize
    /\ mergeI + 1 < Len(mergeSegments)
    /\ mergeSegments' = [mergeSegments EXCEPT ![mergeI + 2] = combinedWithNext]
    /\ mergeI' = mergeI + 1
    /\ UNCHANGED <<mergeResult, mergePc>>
    /\ MergeUnchanged

\* a short segment is written into the next one
MergeWithNext ==
    /\ mergePc = "loop"
    /\ mergeI < Len(mergeSegments)
    /\ Len(currentSegment) < mergeMinChunkSize
    /\ MergesWithNext
    /\ mergeSegments' = [mergeSegments EXCEPT ![mergeI + 2] = combinedWithNext]
    /\ mergeI' = mergeI + 1
    /\ UNCHANGED <<mergeResult, mergePc>>
    /\ MergeUnchanged

\* a short segment is appended to the last segment of the result
MergeWithPrevious ==
    /\ mergePc = "loop"
    /\ mergeI < Len(mergeSegments)
    /\ Len(currentSegment) < mergeMinChunkSize
    /\ ~MergesWithNext
    /\ MergesWithPrevious
    /\ mergeResult' = [mergeResult EXCEPT ![Len(mergeResult)] = combinedWithPrevious]
    /\ mergeI' = mergeI + 1
    /\ UNCHANGED <<mergeSegments, mergePc>>
    /\ MergeUnchanged

\* a short segment that fits nowhere
MergeKeepShort ==
    /\ mergePc = "loop"
    /\ mergeI < Len(mergeSegments)
    /\ Len(currentSegment) < mergeMinChunkSize
    /\ ~MergesWithNext
    /\ ~MergesWithPrevious
    /\ mergeResult' = Append(mergeResult, currentSegment)
    /\ mergeI' = mergeI + 1
    /\ UNCHANGED <<mergeSegments, mergePc>>
    /\ MergeUnchanged

MergeReturn ==
    /\ mergePc = "loop"
    /\ ~(mergeI < Len(mergeSegments))
    /\ mergePc' = "done"
    /\ UNCHANGED <<mergeSegments, mergeI, mergeResult>>
    /\ MergeUnchanged

NextMerge ==
    \/ MergeNothing
    \/ MergeEnter
    \/ MergeKeepLong
    \/ MergeWithNext
    \/ MergeWithPrevious
    \/ MergeKeepShort
    \/ MergeReturn

SpecMerge == InitMerge /\ [][NextMerge]_vars

\* an iteration of the loop on a segment below max(3, floor(0.25 * maxChunkSize))
ShortSegmentStep ==
    /\ mergePc = "loop"
    /\ mergeI' = mergeI + 1
    /\ 4 * Len(currentSegment) < Max(12, mergeMaxChunkSize - (mergeMaxChunkSize % 4))

FitsWithNext ==
    /\ mergeI + 2 <= Len(mergeSegments)
    /\ Len(currentSegment) + 1 + Len(mergeSegments[mergeI + 2]) <= mergeMaxChunkSize

FitsWithLast ==
    /\ mergeResult # <<>>
    /\ Len(mergeResult[Len(mergeResult)]) + 1 + Len(currentSegment) <= mergeMaxChunkSize

\* the segments that are, or will be, segments of the result
Pending == {mergeResult[k] : k \in 1..Len(mergeResult)}
               \cup {mergeSegments[k] : k \in (mergeI + 1)..Len(mergeSegments)}

SizeConstrainedCall == maxUnits > 0 /\ selPc \in {"select", "format"}

(***************************************************************************)
(* C28: in size-constrained fixed-count selection (maxUnits > 0),          *)
(* 0 <= currentUnits <= maxUnits in every reachable state, and             *)
(* currentUnits never decreases from one step to the next.                 *)
(***************************************************************************)
C28_CurrentUnitsBoundedMonotonic ==
    /\ [](maxUnits > 0 => (0 <= currentUnits /\ currentUnits <= maxUnits))
    /\ [][SizeConstrainedCall => currentUnits' >= currentUnits]_vars

\* the total grew over two ordered chunks and a truncated chunk then took it
\* to maxUnits
C28_Witness ==
    /\ maxUnits > 0 /\ selPc = "format"
    /\ pos > 2
    /\ currentUnits = maxUnits
    /\ Len(selectedChunks) >= 3
    /\ selectedChunks[Len(selectedChunks)].Index \notin addedIndices

\* the indices of the chunks written to the returned string
RenderedIndices == {rendered[k] : k \in 1..Len(rendered)}

(***************************************************************************)
(* C29: in size-constrained fixed-count selection with maxUnits >= 1 and   *)
(* any contextBefore, contextAfter, the first ordered chunk is always      *)
(* present in the output, whole or truncated; its context neighbours never *)
(* take the budget in its place.                                           *)
(***************************************************************************)
C29_FirstOrderedChunkInOutput ==
    (SelectReturned /\ maxUnits >= 1 /\ Len(orderedChunks) > 0)
        => orderedChunks[1].Index \in RenderedIndices

\* a strategy call with the words counter and a size limit has returned
StrategyCallReturned ==
    SelectReturned /\ call = "strategy" /\ counterName = "words" /\ maxUnits > 0

SelectedIndices == IndicesOf(selectedChunks)

\* the chunks selected with a text other than the original chunk's
TruncatedPositions ==
    {k \in 1..Len(selectedChunks) :
        selectedChunks[k].Text # allChunks[selectedChunks[k].Index + 1]}

(***************************************************************************)
(* C30: in strategy mode (context 0/0) with the words counter and          *)
(* maxUnits > 0, the original indices selected by ApplySizeConstraints     *)
(* form a contiguous range: a prefix for Beginning, a suffix for End, a    *)
(* range containing index n/2 for Middle; at most the chunk added last is  *)
(* truncated.                                                              *)
(***************************************************************************)
C30_StrategySelectsContiguousRange ==
    StrategyCallReturned =>
        /\ Cardinality(SelectedIndices) = Len(selectedChunks)
        /\ \A i, j \in SelectedIndices :
              \A k \in 0..(Len(allChunks) - 1) : (i < k /\ k < j) => k \in SelectedIndices
        /\ SelectedIndices # {} =>
              CASE strategy = "Beginning" -> 0 \in SelectedIndices
                [] strategy = "End"       -> (Len(allChunks) - 1) \in SelectedIndices
                [] strategy = "Middle"    -> (Len(allChunks) \div 2) \in SelectedIndices
        /\ TruncatedPositions \subseteq {Len(selectedChunks)}

\* a Middle call that selects a range without the start of the document, its
\* last chunk truncated
C30_Witness ==
    /\ StrategyCallReturned
    /\ strategy = "Middle"
    /\ Len(selectedChunks) >= 2
    /\ 0 \notin SelectedIndices
    /\ TruncatedPositions = {Len(selectedChunks)}

\* a Middle call that selects an inner range, with neither end of the document
C30_WitnessInnerRange ==
    /\ StrategyCallReturned
    /\ strategy = "Middle"
    /\ Len(selectedChunks) >= 2
    /\ 0 \notin SelectedIndices
    /\ (Len(allChunks) - 1) \notin SelectedIndices

====
